---- MODULE Spec2Model ----
(***************************************************************************)
(* Model of the similar-track discovery and mood-playlist pipeline of      *)
(* Beatsmith AI: normalizeTrackNameForComparison, getAccessToken,          *)
(* getLastFmSimilarTracks, findSimilarTracks and generatePlaylistByMood,   *)
(* each tool in its two versions (src/src/tools.ts, the multi-source one,  *)
(* and src/unnamed/part_001, the Last.fm-only one).                        *)
(*                                                                         *)
(* Track names are sequences of tokens; a token is one word or one         *)
(* punctuation character.  Artists are strings.  External services answer  *)
(* nondeterministically: "ok" with a payload, "notok" (non-2xx status) or   *)
(* "throw" (network or parse error).                                       *)
(***************************************************************************)
EXTENDS Integers, Sequences, FiniteSets, TLC

(* ------------------------------ bounds --------------------------------- *)
\* longest track list an external call answers with
MaxResp == 2
\* most tracks the candidate sources answer with during one call, in all
MaxTracks == 2
\* largest value of the limit parameter of a whole call
MaxLimit == 2
\* most hits of a seed search when the seed resolution is run alone
MaxHits == 3
\* longest name the normalizer is run on alone, in tokens
MaxName == 3
\* largest value of the limit parameter when the selection is run alone
MaxSelLimit == 6
\* longest candidate list the selection is run on alone
MaxCand == 6
\* most entries in one Last.fm answer
MaxLfm == 2
\* most related artists the catalog answers with
MaxRelated == 2

(* --------------------------- generic helpers --------------------------- *)
Range(s) == {s[i] : i \in 1..Len(s)}

Min(a, b) == IF a < b THEN a ELSE b

Max(a, b) == IF a > b THEN a ELSE b

\* Array.prototype.slice(0, n) for n >= 0
Slice(s, n) == SubSeq(s, 1, Min(n, Len(s)))

\* all sequences without repetition over S of length at most n
RECURSIVE SeqsUpTo(_, _)
SeqsUpTo(S, n) ==
  IF n = 0 THEN {<<>>}
  ELSE LET shorter == SeqsUpTo(S, n - 1)
       IN shorter \cup {Append(s, x) : s \in shorter, x \in S}

DistinctSeqs(S, n) ==
  {s \in SeqsUpTo(S, n) : \A i, j \in 1..Len(s) : i # j => s[i] # s[j]}

(* -------------------- normalizeTrackNameForComparison ------------------ *)
\* marker words of the first pattern
Markers1 == {"with", "feat", "ft.", "slowed", "sped", "remix", "version",
             "extended", "acoustic", "live", "reverb", "reprise",
             "instrumental"}

\* marker words of the second pattern
Markers2 == {"remix", "version", "extended", "acoustic", "live", "reverb",
             "reprise", "instrumental"}

\* String.prototype.toLowerCase on one token
LowerTok(t) ==
  CASE t = "A" -> "a"
    [] t = "B" -> "b"
    [] t = "Live" -> "live"
    [] t = "Remix" -> "remix"
    [] t = "Feat" -> "feat"
    [] OTHER -> t

LowerName(name) == [i \in 1..Len(name) |-> LowerTok(name[i])]

\* the marker words a (lower-case) token begins with; the patterns have no
\* word boundary after the marker, so "liverpool" begins with "live"
MarkerPrefixes(t) ==
  CASE t = "liverpool" -> {"live"}
    [] t = "without" -> {"with"}
    [] t = "featuring" -> {"feat"}
    [] OTHER -> {t} \cap Markers1

\* \s matches the space and the line terminators
IsSpace(t) == t \in {" ", "\n"}

\* "." matches every character but a line terminator
IsLineTerminator(t) == t = "\n"

IsOpen(t) == t \in {"-", "("}

\* /\s*[-\(](m1|m2|...).*$/ matches at position i: a maximal run of white
\* space from i, then "-" or "(", then immediately a token beginning with a
\* marker of M, then ".*$": no line terminator from there to the end of the
\* string (the patterns have neither the s nor the m flag)
RECURSIVE SkipSpaces(_, _)
SkipSpaces(name, i) ==
  IF i <= Len(name) /\ IsSpace(name[i]) THEN SkipSpaces(name, i + 1) ELSE i

MatchesAt(name, i, M) ==
  LET j == SkipSpaces(name, i)
  IN /\ j + 1 <= Len(name)
     /\ IsOpen(name[j])
     /\ MarkerPrefixes(name[j + 1]) \cap M # {}
     /\ \A k \in (j + 2)..Len(name) : ~IsLineTerminator(name[k])

\* String.prototype.replace(pattern, ""): the leftmost match is removed,
\* and the match runs to the end of the string
StripPattern(name, M) ==
  LET starts == {i \in 1..Len(name) : MatchesAt(name, i, M)}
  IN IF starts = {} THEN name
     ELSE LET first == CHOOSE i \in starts : \A k \in starts : i <= k
          IN SubSeq(name, 1, first - 1)

RECURSIVE TrimLeft(_)
TrimLeft(name) ==
  IF name # <<>> /\ IsSpace(Head(name)) THEN TrimLeft(Tail(name)) ELSE name

RECURSIVE TrimRight(_)
TrimRight(name) ==
  IF name # <<>> /\ IsSpace(name[Len(name)])
  THEN TrimRight(SubSeq(name, 1, Len(name) - 1))
  ELSE name

Trim(name) == TrimRight(TrimLeft(name))

normalizeTrackNameForComparison(name) ==
  Trim(StripPattern(StripPattern(LowerName(name), Markers1), Markers2))

(* ------------------------------ the catalog ---------------------------- *)
\* Artist names.  SeedArtistName is the primary artist of every track the
\* seed search can answer with.
SeedArtistName == "X"

ArtistNames == {"X", "R1", "R2", "R3", "G1", "G2"}

\* A track of the music catalog: its id determines its name and its credits
Track(id, name, artists) == [id |-> id, name |-> name, artists |-> artists]

NoTrack == Track(0, <<>>, <<>>)

Catalog ==
  { Track(1, <<"a">>, <<"X">>),
    Track(2, <<"A", " ", "(", "Live", ")">>, <<"X">>),
    Track(3, <<"b">>, <<"X">>),
    Track(4, <<"c">>, <<"X">>),
    Track(5, <<"d">>, <<"R1">>),
    Track(6, <<"e">>, <<"R1">>),
    Track(7, <<"d", " ", "(", "Remix", ")">>, <<"R2">>),
    Track(8, <<"f">>, <<"R2", "X">>),
    Track(9, <<"g">>, <<"G1">>),
    Track(10, <<"a", " ", "-", "remix">>, <<"G1">>),
    Track(11, <<"chill">>, <<"G2">>),
    Track(12, <<"g", " ", "-", " ", "live">>, <<"G2">>),
    Track(13, <<"i">>, <<"X">>) }

TrackById(id) == CHOOSE t \in Catalog : t.id = id

TracksOf(ids) == {t \in Catalog : t.id \in ids}

\* what each endpoint may answer with
SeedSearchPool == TracksOf({1, 2})

SeedTopPool == TracksOf({1, 2, 3, 8})

RelatedPool == {"R1", "R2"}

ArtistTopPool(artist) == {t \in Catalog : t.artists[1] = artist}

GenrePool == TracksOf({7, 8, 9, 10})

LfmPool == TracksOf({4, 9, 10, 11})

\* the libraries a user may have: none, or some top and liked tracks
Libraries == {[top |-> {}, liked |-> {}], [top |-> {3, 9}, liked |-> {11}]}

\* genre tags the catalog may hold for the seed artist
GenreTags == {<<>>, <<"chill">>}

\* Last.fm match scores, in hundredths
MatchScores == {5, 50}

\* outcome of one external call
Outcomes == {"ok", "notok", "throw"}

\* the answers of a call that lists tracks of pool, at most n of them
Answers(pool, n) ==
  {[outcome |-> o, items |-> <<>>] : o \in {"notok", "throw"}}
    \cup {[outcome |-> "ok", items |-> s] : s \in DistinctSeqs(pool, Min(MaxResp, n))}

\* before Promise.all of lines 3167-3181 (part_001 lines 2949-2957)
NoAnswers == [artists |-> "none", top |-> "none", liked |-> "none"]

(* ------------------------------ the state ------------------------------ *)
VARIABLES
  tool,                \* the tool whose execute() runs
  version,             \* the source file the tool is taken from
  pc,                  \* position of execute()
  limit,               \* argument: number of tracks wanted
  excludeUserTracks,   \* argument
  authCode,            \* argument: TRUE iff an authorization code is passed
  trackQuery,          \* argument: [artist, cover] (what the text asks for)
  userTop,             \* the user's top tracks, as the library holds them
  userLiked,           \* the user's liked tracks, as the library holds them
  mood,                \* argument of generatePlaylistByMood
  familiarity,         \* argument of generatePlaylistByMood
  accessToken,         \* "none", "client" or "user"
  seedSearch,          \* how the seed search answered: "pending" before it,
                       \* then "throw", "notok", "empty" (no hit) or "hits"
  seedTrack,
  seedArtistGenres,
  relatedArtists,
  relIdx,              \* next related artist of loop 3b
  searchIdx,           \* next search term of loop 3c
  lfmLeft,             \* Last.fm entries still to resolve in loop 3d
  settled,             \* findSimilarTracks: the answers of the two library
                       \* fetches in the order in which they arrived
  lfmMatch,            \* lfmTrack.match of the entry the loop is at, in
                       \* hundredths; NoMatch outside the loop
  quota,               \* tracks the candidate sources still answer with
  candidateTracks,
  seenNormalizedNames,
  offered,             \* history: the tracks put before the duplicate test
  excludeIds,
  libraryFailed,       \* a library fetch was issued and did not succeed
  scoredTracks,
  finalTracks,
  artistCount,
  sameArtistTotal,
  tracks,              \* the tracks of the returned text
  topArtists,          \* generatePlaylistByMood: the user's top artists
  topTracks,           \* generatePlaylistByMood: ids of topTracks.items
  likedTracks,         \* generatePlaylistByMood: ids of likedTracks.items
  trackUris,
  addedIds,
  playlistCalls,       \* the playlist-writing calls issued so far
  libraryAnswers,      \* generatePlaylistByMood: how the fetches of the top
                       \* artists, top tracks and liked tracks were answered
  callFailed,          \* generatePlaylistByMood: some external call of the
                       \* invocation did not succeed
  firstCall,           \* what an earlier call of the same tool received and
                       \* returned, when two calls are compared
  seedHits,            \* the seed resolution applied alone: the hits of
                       \* the seed search, searchData.tracks.items
  names,               \* normalizeTrackNameForComparison applied alone: the
                       \* names it is given and the keys it returns
  result               \* which text execute() returned; "EXCEPTION" if it threw

vars == <<tool, version, pc, limit, excludeUserTracks, authCode, trackQuery,
          userTop, userLiked, mood, familiarity, accessToken, seedSearch, seedTrack,
          seedArtistGenres, relatedArtists, relIdx, searchIdx, lfmLeft, lfmMatch,
          settled,
          quota, candidateTracks, seenNormalizedNames, offered, excludeIds,
          libraryFailed, scoredTracks, finalTracks, artistCount,
          sameArtistTotal, tracks, topArtists, topTracks, likedTracks,
          trackUris, addedIds, playlistCalls, libraryAnswers, callFailed, firstCall,
          seedHits, names, result>>

\* what no step of a call changes: the arguments, the user's library, the
\* record of the earlier call and the names normalized alone
callVars == <<tool, version, limit, excludeUserTracks, authCode, trackQuery,
              userTop, userLiked, mood, familiarity, firstCall, seedHits,
              names>>

\* what only the Last.fm loops and the steps after them change
inputVars == <<callVars, lfmMatch, settled>>

\* the locals of generatePlaylistByMood
moodVars == <<topArtists, topTracks, likedTracks, trackUris, addedIds,
              playlistCalls, libraryAnswers, callFailed>>

gatherVars == <<candidateTracks, seenNormalizedNames, offered>>

selectVars == <<scoredTracks, finalTracks, artistCount, sameArtistTotal>>

Limits == 1..MaxLimit

PlainQuery == [artist |-> "", cover |-> FALSE]

Queries == {PlainQuery}

\* artistCount.get(key) || 0 for every key
NoArtistCount == [a \in ArtistNames \cup {""} |-> 0]

\* no Last.fm entry is being resolved
NoMatch == 0

\* no earlier call is on record
NoRun ==
  [made |-> FALSE, seedTrack |-> NoTrack, seedArtistGenres |-> <<>>,
   relatedArtists |-> <<>>, offered |-> <<>>, tracks |-> <<>>]

\* no name has been normalized alone
NoNames ==
  [name |-> <<>>, key |-> <<>>, rekey |-> <<>>, variant |-> <<>>,
   variantKey |-> <<>>]

InitLocals ==
  /\ firstCall = NoRun
  /\ accessToken = "none"
  /\ seedSearch = "pending"
  /\ seedTrack = NoTrack
  /\ seedArtistGenres = <<>>
  /\ relatedArtists = <<>>
  /\ relIdx = 1
  /\ searchIdx = 0
  /\ lfmLeft = 0
  /\ lfmMatch = NoMatch
  /\ settled = <<>>
  /\ quota = MaxTracks
  /\ candidateTracks = <<>>
  /\ seenNormalizedNames = {}
  /\ offered = <<>>
  /\ excludeIds = {}
  /\ libraryFailed = FALSE
  /\ scoredTracks = <<>>
  /\ finalTracks = <<>>
  /\ artistCount = NoArtistCount
  /\ sameArtistTotal = 0
  /\ tracks = <<>>
  /\ topArtists = <<>>
  /\ topTracks = <<>>
  /\ likedTracks = <<>>
  /\ trackUris = <<>>
  /\ addedIds = {}
  /\ playlistCalls = <<>>
  /\ libraryAnswers = NoAnswers
  /\ callFailed = FALSE
  /\ result = "pending"

Versions == {"tools.ts", "part_001"}

Familiarities == {"new", "familiar", "mixed"}

\* mood keywords: one of the mood table, one that is a common word
Moods == {"chill", "a"}

\* a call of findSimilarTracks.execute with its arguments, and the library
\* of the user the call is made for
InitFind ==
  /\ tool = "findSimilarTracks"
  /\ version \in Versions
  /\ pc = "token"
  /\ limit \in Limits
  /\ excludeUserTracks \in BOOLEAN
  /\ authCode \in BOOLEAN
  /\ trackQuery \in Queries
  /\ \E lib \in Libraries : userTop = lib.top /\ userLiked = lib.liked
  \* without excludeUserTracks neither authCode nor the library is read
  /\ ~excludeUserTracks => ~authCode /\ userTop = {} /\ userLiked = {}
  /\ mood = ""
  /\ familiarity = "mixed"
  /\ seedHits = <<>>
  /\ names = NoNames
  /\ InitLocals

\* a call of generatePlaylistByMood.execute
InitMood ==
  /\ tool = "generatePlaylistByMood"
  /\ version \in Versions
  /\ pc = "moodToken"
  /\ limit = 0
  /\ excludeUserTracks = FALSE
  /\ authCode \in BOOLEAN
  /\ trackQuery = PlainQuery
  /\ \E lib \in Libraries : userTop = lib.top /\ userLiked = lib.liked
  /\ mood \in Moods
  /\ familiarity \in Familiarities
  /\ seedHits = <<>>
  /\ names = NoNames
  /\ InitLocals

Init == InitFind \/ InitMood

\* return <text>
Return(text, out) ==
  /\ pc' = "done"
  /\ result' = text
  /\ tracks' = out

\* the catch clause of findSimilarTracks.execute: the text it returns
CatchAll == "Error finding similar tracks"

\* the catch clause of generatePlaylistByMood.execute: the text it returns
MoodCatchAll == "Error generating playlist"

\* an error that leaves execute() uncaught
Throw_uncaught(text) == Return("EXCEPTION", <<>>)

\* an error thrown inside the try block of execute(): the catch clause
\* returns its text
Throw(text) == Return(text, <<>>)

(* ----------------------------- getAccessToken -------------------------- *)
\* Outcome of getAccessToken(authCode): "user" (a token) or "throw".
\*   storedCode: answer of /get-auth-code, asked only without an authCode
\*   stored:     "valid", "refreshed" (expired, refresh succeeds), "stale"
\*               (expired, refresh refused), "none" (no stored tokens) or
\*               "throw" (a fetch of this part throws)
\*   exchange:   answer of the authorization-code exchange
getAccessToken(passed, storedCode, stored, exchange) ==
  LET haveCode == passed \/ storedCode = "ok"
  IN IF ~passed /\ storedCode = "throw" THEN "throw"
     ELSE IF stored = "throw" THEN "throw"
     ELSE IF stored \in {"valid", "refreshed"} THEN "user"
     ELSE IF ~haveCode THEN "throw"
     ELSE IF exchange = "ok" THEN "user"
     ELSE "throw"

StoredStates == {"valid", "refreshed", "stale", "none", "throw"}

(* -------------------------- findSimilarTracks -------------------------- *)
\* lines 2187-2217 (part_001 lines 2481-2511): the access token
GetToken ==
  /\ pc = "token"
  /\ \E storedCode \in Outcomes, stored \in StoredStates, exchange \in Outcomes,
        client \in Outcomes :
       LET got == IF excludeUserTracks
                  THEN getAccessToken(authCode, storedCode, stored, exchange)
                  ELSE IF client = "ok" THEN "client"
                  ELSE IF client = "notok" THEN "none"
                  ELSE "throw"
       IN IF got = "throw"
          THEN Throw(CatchAll) /\ UNCHANGED accessToken
          ELSE IF got = "none"
          THEN Return("Failed to get access token for track search.", <<>>)
               /\ UNCHANGED accessToken
          ELSE /\ accessToken' = got
               /\ pc' = "search"
               /\ UNCHANGED <<result, tracks>>
  /\ UNCHANGED <<inputVars, moodVars, seedSearch, seedTrack, seedArtistGenres,
                 relatedArtists, relIdx, searchIdx, lfmLeft, quota, gatherVars,
                 excludeIds, libraryFailed, selectVars>>

\* a.name.toLowerCase()
LowerArtist(a) ==
  CASE a = "X" -> "x"
    [] a = "R1" -> "r1"
    [] a = "R2" -> "r2"
    [] a = "R3" -> "r3"
    [] a = "G1" -> "g1"
    [] a = "G2" -> "g2"
    [] OTHER -> a

\* String.prototype.includes on lower-cased artist names
ArtistIncludes(lower, part) ==
  \/ part = lower
  \/ part = ""
  \/ part = "r" /\ lower \in {"r1", "r2", "r3"}
  \/ part = "g" /\ lower \in {"g1", "g2"}

\* name.includes(word) for the words the code tests
NameIncludes(name, word) == word \in Range(LowerName(name))

\* items.find(p): the first element satisfying p, as its index (0: none)
FirstIndex(items, P(_)) ==
  IF \E i \in 1..Len(items) : P(items[i])
  THEN CHOOSE i \in 1..Len(items) :
         P(items[i]) /\ \A k \in 1..(i - 1) : ~P(items[k])
  ELSE 0

\* lines 2250-2299: the seed among the search hits (items is not empty)
ResolveSeed(items, query) ==
  LET exact(t) == \E i \in 1..Len(t.artists) :
                     LowerArtist(t.artists[i]) = query.artist
      partial(t) == \E i \in 1..Len(t.artists) :
                      ArtistIncludes(LowerArtist(t.artists[i]), query.artist)
      nonCover(t) == /\ ~NameIncludes(t.name, "karaoke")
                     /\ ~NameIncludes(t.name, "instrumental")
                     /\ ~NameIncludes(t.name, "cover")
                     /\ LowerArtist(t.artists[1]) \notin {"karaoke", "tribute"}
      e == FirstIndex(items, exact)
      p == FirstIndex(items, partial)
      n == FirstIndex(items, nonCover)
  IN IF query.artist # ""
     THEN (IF e # 0 THEN items[e] ELSE IF p # 0 THEN items[p] ELSE items[1])
     ELSE IF ~query.cover /\ n # 0 THEN items[n]
     ELSE items[1]

\* SeedSearchResult without the test for zero hits: items[0] is undefined
\* and reading its artists throws
SeedSearchResult_noEmptyTest(outcome, items) ==
  IF outcome = "throw" THEN CatchAll
  ELSE IF outcome = "notok" THEN "Failed to find the seed track."
  ELSE IF Len(items) = 0 THEN CatchAll
  ELSE ""

\* lines 2219-2248 (part_001 lines 2513-2542): the text the seed search
\* ends the call with, "" if the call goes on
SeedSearchResult(outcome, items) ==
  IF outcome = "throw" THEN CatchAll
  ELSE IF outcome = "notok" THEN "Failed to find the seed track."
  ELSE IF Len(items) = 0 THEN "No track found matching"
  ELSE ""

\* lines 2219-2302 (part_001 lines 2513-2608): the seed search
SearchSeed ==
  /\ pc = "search"
  /\ \E outcome \in Outcomes, items \in DistinctSeqs(SeedSearchPool, MaxResp) :
       /\ seedSearch' = IF outcome # "ok" THEN outcome
                        ELSE IF Len(items) = 0 THEN "empty" ELSE "hits"
       /\ IF SeedSearchResult(outcome, items) # ""
          THEN Return(SeedSearchResult(outcome, items), <<>>)
               /\ UNCHANGED seedTrack
          ELSE /\ seedTrack' = ResolveSeed(items, trackQuery)
               /\ pc' = IF version = "tools.ts" THEN "genres" ELSE "oldLastfm"
               /\ UNCHANGED <<result, tracks>>
  /\ UNCHANGED <<inputVars, moodVars, accessToken, seedArtistGenres, relatedArtists,
                 relIdx, searchIdx, lfmLeft, quota, gatherVars, excludeIds,
                 libraryFailed, selectVars>>

seedArtist == seedTrack.artists[1]

seedNormalizedName == normalizeTrackNameForComparison(seedTrack.name)

\* lines 2304-2317: the seed artist's genres; any failure leaves none
FetchArtistGenres ==
  /\ pc = "genres"
  /\ \E outcome \in Outcomes, genres \in GenreTags :
       seedArtistGenres' = IF outcome = "ok" THEN genres ELSE <<>>
  /\ pc' = "related"
  /\ UNCHANGED <<inputVars, moodVars, accessToken, seedSearch, seedTrack, relatedArtists, relIdx,
                 searchIdx, lfmLeft, quota, gatherVars, excludeIds, libraryFailed,
                 selectVars, tracks, result>>

\* lines 2319-2333: related artists; the fetch is outside every inner try
FetchRelatedArtists ==
  /\ pc = "related"
  /\ \E outcome \in Outcomes, artists \in DistinctSeqs(RelatedPool, MaxRelated) :
       IF outcome = "throw"
       THEN Throw(CatchAll) /\ UNCHANGED relatedArtists
       ELSE /\ relatedArtists' = IF outcome = "ok" THEN Slice(artists, 5)
                                 ELSE <<>>
            /\ pc' = "seedTop"
            /\ UNCHANGED <<result, tracks>>
  /\ UNCHANGED <<inputVars, moodVars, accessToken, seedSearch, seedTrack, seedArtistGenres, relIdx,
                 searchIdx, lfmLeft, quota, gatherVars, excludeIds, libraryFailed,
                 selectVars>>

(* ------------------------- candidate gathering ------------------------- *)
Candidate(t, source) ==
  [id |-> t.id, name |-> t.name, artists |-> t.artists, source |-> source]

\* Array.prototype.filter on a sequence
SelectSeq2(s, P(_)) ==
  LET f[i \in 0..Len(s)] ==
        IF i = 0 THEN <<>>
        ELSE IF P(s[i]) THEN Append(f[i - 1], s[i]) ELSE f[i - 1]
  IN f[Len(s)]

\* track.artists.some((a) => a.name === name)
Credits(t, name) == \E i \in 1..Len(t.artists) : t.artists[i] = name

\* AddCandidate without the test of the names already seen
AddCandidate_noSeenTest(g, t, source, checkId, seedKey) ==
  LET key == normalizeTrackNameForComparison(t.name)
  IN IF key = seedKey THEN g
     ELSE [cands |-> IF checkId /\ \E i \in 1..Len(g.cands) : g.cands[i].id = t.id
                     THEN g.cands
                     ELSE Append(g.cands, Candidate(t, source)),
           seen |-> g.seen \cup {key}]

\* the body every gathering loop runs for one track (lines 2374-2393,
\* 2488-2507, 2598-2621, 2686-2707): skip a variant of the seed and a
\* name already seen, remember the name, push the candidate; checkId is
\* the extra !candidateTracks.some(ct => ct.id === track.id) of 3c and 3d
AddCandidate(g, t, source, checkId, seedKey) ==
  LET key == normalizeTrackNameForComparison(t.name)
  IN IF key = seedKey \/ key \in g.seen THEN g
     ELSE [cands |-> IF checkId /\ \E i \in 1..Len(g.cands) : g.cands[i].id = t.id
                     THEN g.cands
                     ELSE Append(g.cands, Candidate(t, source)),
           seen |-> g.seen \cup {key}]

\* one gathering loop over the tracks an answer offers
GatherLoop(tracksOffered, cands, seen, source, checkId, seedKey) ==
  LET f[i \in 0..Len(tracksOffered)] ==
        IF i = 0 THEN [cands |-> cands, seen |-> seen]
        ELSE AddCandidate(f[i - 1], tracksOffered[i], source, checkId, seedKey)
  IN f[Len(tracksOffered)]

\* the gathering variables after one loop
Gathered(tracksOffered, source, checkId) ==
  LET g == GatherLoop(tracksOffered, candidateTracks, seenNormalizedNames, source,
                      checkId, seedNormalizedName)
  IN /\ candidateTracks' = g.cands
     /\ seenNormalizedNames' = g.seen
     /\ offered' = offered \o [i \in 1..Len(tracksOffered) |->
                                 Candidate(tracksOffered[i], source)]

\* slice caps of the gathering loops
SeedTopCap == 4

RelatedAllCap == 8

RelatedFallbackCap == 6

AlbumTrackCap == 3

\* lines 2371-2372: what 3a puts before the duplicate test
SeedTopOffered(answer) ==
  IF answer.outcome # "ok" THEN <<>>
  ELSE LET notSeed(t) == t.id # seedTrack.id
       IN SelectSeq2(Slice(answer.items, SeedTopCap), notSeed)

\* lines 2350-2398 (3a): top tracks of the seed artist
GatherSeedArtist ==
  /\ pc = "seedTop"
  /\ \E answer \in Answers(SeedTopPool, quota) :
       /\ Gathered(SeedTopOffered(answer), "seed_artist", FALSE)
       /\ quota' = quota - Len(answer.items)
  /\ pc' = IF Len(relatedArtists) = 0 THEN "genreSearch" ELSE "relTracks"
  /\ UNCHANGED <<inputVars, moodVars, accessToken, seedSearch, seedTrack, seedArtistGenres,
                 relatedArtists, relIdx, searchIdx, lfmLeft, excludeIds,
                 libraryFailed, selectVars, tracks, result>>

\* most albums of one related artist the catalog answers with
MaxAlbums == 1

\* lines 2437 and 2452: albumIds.slice(0, 3), then albumIds.slice(0, 2)
AlbumCap == 2

\* lines 2452-2484: the album tracks appended to the top tracks
AlbumItems(albums) ==
  LET f[i \in 0..Len(albums)] ==
        IF i = 0 THEN <<>>
        ELSE IF albums[i].outcome = "ok"
             THEN f[i - 1] \o Slice(albums[i].items, AlbumTrackCap)
             ELSE f[i - 1]
  IN f[Min(Len(albums), AlbumCap)]

\* lines 2401-2538: what one related artist puts before the duplicate test;
\* albumsOutcome "throw" is the albums call throwing (the fallback branch)
RelatedOffered(top, albumsOutcome, albums) ==
  IF top.outcome # "ok" THEN <<>>
  ELSE IF albumsOutcome = "throw" THEN Slice(top.items, RelatedFallbackCap)
  ELSE IF albumsOutcome = "notok" THEN Slice(top.items, RelatedAllCap)
  ELSE Slice(top.items \o AlbumItems(albums), RelatedAllCap)

RECURSIVE TotalItems(_)
TotalItems(answers) ==
  IF answers = <<>> THEN 0
  ELSE Len(Head(answers).items) + TotalItems(Tail(answers))

\* the answers of the calls made for one related artist: the top tracks,
\* the album list, the tracks of each album
RelatedAnswers(artist) ==
  LET pool == ArtistTopPool(artist)
  IN {[top |-> t, albumsOutcome |-> o, albums |-> <<>>] :
        t \in Answers(pool, quota), o \in {"notok", "throw"}}
     \cup
     {r \in [top : {t \in Answers(pool, quota) : t.outcome = "ok"},
             albumsOutcome : {"ok"},
             albums : SeqsUpTo(Answers(pool, quota), MaxAlbums)] :
        Len(r.top.items) + TotalItems(r.albums) <= quota}

\* lines 2400-2538 (3b): one iteration of the loop over related artists
GatherRelatedArtist ==
  /\ pc = "relTracks"
  /\ relIdx <= Len(relatedArtists)
  /\ \E r \in RelatedAnswers(relatedArtists[relIdx]) :
       /\ Gathered(RelatedOffered(r.top, r.albumsOutcome, r.albums),
                   "related_artist", FALSE)
       /\ quota' = quota - (Len(r.top.items) + TotalItems(r.albums))
  /\ relIdx' = relIdx + 1
  /\ pc' = IF relIdx' > Len(relatedArtists) THEN "genreSearch" ELSE "relTracks"
  /\ UNCHANGED <<inputVars, moodVars, accessToken, seedSearch, seedTrack, seedArtistGenres,
                 relatedArtists, searchIdx, lfmLeft, excludeIds, libraryFailed,
                 selectVars, tracks, result>>

\* line 2567: Math.min(3, dynamicSearchTerms.length); the list has 3 terms
\* (fallback) or 3 per genre, so the loop always runs 3 times
NumSearches == 3

\* lines 2592-2596: what one genre search puts before the duplicate test
GenreOffered(answer) ==
  IF answer.outcome # "ok" THEN <<>>
  ELSE LET notSeedArtist(t) == ~Credits(t, seedArtist)
       IN SelectSeq2(answer.items, notSeedArtist)

\* lines 2567-2627 (3c): one genre/mood search
GatherGenreSearch ==
  /\ pc = "genreSearch"
  /\ \E answer \in Answers(GenrePool, quota) :
       /\ Gathered(GenreOffered(answer), "genre_search", TRUE)
       /\ quota' = quota - Len(answer.items)
  /\ searchIdx' = searchIdx + 1
  /\ pc' = IF searchIdx' >= NumSearches THEN "lastfm" ELSE "genreSearch"
  /\ UNCHANGED <<inputVars, moodVars, accessToken, seedSearch, seedTrack, seedArtistGenres,
                 relatedArtists, relIdx, lfmLeft, excludeIds, libraryFailed,
                 selectVars, tracks, result>>

\* lines 2107-2151: the number of entries getLastFmSimilarTracks returns;
\* without an API key, on a thrown error or on an answer without
\* similartracks it returns the empty list, and it never throws
getLastFmSimilarTracks(hasKey, outcome, n) ==
  IF hasKey /\ outcome = "ok" THEN n ELSE 0

\* line 2631: the Last.fm lookup
FetchLastFm ==
  /\ pc = "lastfm"
  /\ \E hasKey \in BOOLEAN, outcome \in Outcomes, n \in 0..MaxLfm :
       lfmLeft' = getLastFmSimilarTracks(hasKey, outcome, n)
  /\ pc' = IF lfmLeft' = 0 THEN "exclude" ELSE "lfmStep"
  /\ UNCHANGED <<inputVars, moodVars, accessToken, seedSearch, seedTrack, seedArtistGenres,
                 relatedArtists, relIdx, searchIdx, quota, gatherVars,
                 excludeIds, libraryFailed, selectVars, tracks, result>>

\* line 2636: the low-score test, in hundredths, and the list size it needs
LowMatch == 15

ManyCandidates == 20

\* lines 2634-2684: what one Last.fm entry puts before the duplicate test:
\* the hit crediting the wanted artist, else the first hit
LfmPick(target, answer) ==
  IF answer.outcome # "ok" \/ Len(answer.items) = 0 THEN <<>>
  ELSE LET wanted(t) == \E i \in 1..Len(t.artists) :
                          ArtistIncludes(LowerArtist(t.artists[i]), target)
           m == FirstIndex(answer.items, wanted)
       IN IF target # "" /\ m # 0 THEN <<answer.items[m]>>
          ELSE <<answer.items[1]>>

\* LfmOffered without the test of line 2636
LfmOffered_noMatchTest(match, target, answer) == LfmPick(target, answer)

LfmOffered(match, target, answer) ==
  IF match < LowMatch /\ Len(candidateTracks) > ManyCandidates THEN <<>>
  ELSE LfmPick(target, answer)

\* the artists Last.fm names, lower-cased
LfmTargets == {"x", "g1", "g2"}

\* lines 2634-2713 (3d): one entry of the Last.fm list
LastFmStep ==
  /\ pc = "lfmStep"
  /\ lfmLeft > 0
  /\ \E match \in MatchScores, target \in LfmTargets,
        answer \in Answers(LfmPool, quota) :
       /\ Gathered(LfmOffered(match, target, answer), "lastfm", TRUE)
       /\ quota' = quota - Len(answer.items)
       /\ lfmMatch' = match
  /\ lfmLeft' = lfmLeft - 1
  /\ pc' = IF lfmLeft' = 0 THEN "exclude" ELSE "lfmStep"
  /\ UNCHANGED <<callVars, settled, moodVars, accessToken, seedSearch, seedTrack, seedArtistGenres,
                 relatedArtists, relIdx, searchIdx, excludeIds, libraryFailed,
                 selectVars, tracks, result>>

\* the order in which the two fetches of lines 2722-2729 may complete
CompletionOrders == {<<"top", "liked">>, <<"liked", "top">>}

\* the answers of the two fetches in the order in which they arrived
Settled(order, answers) ==
  [i \in 1..Len(order) |-> [fetch |-> order[i], outcome |-> answers[order[i]]]]

\* Promise.all that hands out the answers in the order of their arrival
PromiseAll_byArrival(arrived) ==
  [top |-> arrived[1].outcome, liked |-> arrived[2].outcome]

\* line 2721, Promise.all: each answer at the position of its own fetch,
\* whenever it arrived
PromiseAll(arrived) ==
  [top |-> (CHOOSE e \in Range(arrived) : e.fetch = "top").outcome,
   liked |-> (CHOOSE e \in Range(arrived) : e.fetch = "liked").outcome]

\* lines 2720-2730 (step 4; part_001 lines 2622-2634): the two library
\* fetches, in flight together; "throw" is a rejected fetch (caught to null),
\* "badjson" an answer whose body does not parse
FetchUserTracks ==
  /\ pc = "exclude"
  /\ IF excludeUserTracks /\ authCode
     THEN \E topOutcome \in Outcomes \cup {"badjson"}, likedOutcome \in Outcomes,
             order \in CompletionOrders :
            settled' = Settled(order, [top |-> topOutcome, liked |-> likedOutcome])
     ELSE settled' = <<>>
  /\ pc' = "excludeIds"
  /\ UNCHANGED <<callVars, lfmMatch, moodVars, accessToken, seedSearch, seedTrack,
                 seedArtistGenres, relatedArtists, relIdx, searchIdx, lfmLeft,
                 quota, excludeIds, libraryFailed, gatherVars, selectVars, tracks,
                 result>>

\* lines 2732-2748 (part_001 lines 2636-2655): the ids of the user's top
\* and liked tracks; an unreadable body makes the inner catch skip what is
\* left.  topTracksRes and likedRes go out of scope here.  In tools.ts the
\* gathering is over and the sources answer no more tracks.
ExcludeUserTracks ==
  /\ pc = "excludeIds"
  /\ IF settled # <<>>
     THEN LET res == PromiseAll(settled)
          IN /\ excludeIds' =
                  IF res.top = "badjson" THEN {}
                  ELSE (IF res.top = "ok" THEN userTop ELSE {})
                       \cup (IF res.liked = "ok" THEN userLiked ELSE {})
             /\ libraryFailed' = (res.top # "ok" \/ res.liked # "ok")
     ELSE UNCHANGED <<excludeIds, libraryFailed>>
  /\ settled' = <<>>
  /\ quota' = IF version = "tools.ts" THEN 0 ELSE quota
  /\ pc' = IF version = "tools.ts" THEN "score" ELSE "oldStep"
  /\ lfmMatch' = NoMatch
  /\ UNCHANGED <<callVars, moodVars, accessToken, seedSearch, seedTrack,
                 seedArtistGenres, relatedArtists, relIdx, searchIdx, lfmLeft,
                 gatherVars, selectVars, tracks, result>>

(* --------------------------- filter and score -------------------------- *)
MoodWords == {"romantic", "chill", "emotional"}

\* lines 1916-1924: the words of MoodWords in createTrackMetadataText(...);
\* the template itself says "emotional depth", and no artist name of the
\* catalog holds a mood word
createTrackMetadataText(name, artistName, genres, moodText) ==
  ((Range(LowerName(name)) \cup Range(Slice(genres, 3)) \cup moodText)
     \cap MoodWords) \cup {"emotional"}

\* lines 2753-2759
seedMetadata ==
  createTrackMetadataText(seedTrack.name, seedArtist, seedArtistGenres,
                          Range(seedArtistGenres) \cup {"emotional"})

\* lines 2386-2391: the metadata text of a candidate
CandidateMetadata(t) ==
  createTrackMetadataText(t.name, IF Len(t.artists) = 0 THEN "" ELSE t.artists[1],
                          <<>>, {"emotional"})

SameArtistScore == 6

RelatedArtistScore == 8

MoodWordScore == 3

LastFmScore == 15

\* KeepCandidate without the test of excludeIds
KeepCandidate_noExclusion(t) ==
  normalizeTrackNameForComparison(t.name) # seedNormalizedName

\* KeepCandidate that goes by the flag as well as by the set: with
\* excludeUserTracks it treats the seed artist as known to the user
KeepCandidate_byFlag(t) ==
  /\ t.id \notin excludeIds
  /\ excludeUserTracks => ~Credits(t, seedArtist)
  /\ normalizeTrackNameForComparison(t.name) # seedNormalizedName

\* lines 2765-2776: the filter before scoring
KeepCandidate(t) ==
  /\ t.id \notin excludeIds
  /\ normalizeTrackNameForComparison(t.name) # seedNormalizedName

\* ScoreOf with the same-artist bonus at 10, above the related-artist bonus
ScoreOf_sameArtistTen(t) ==
  LET isSameArtist == Credits(t, seedArtist)
      isRelatedArtist == \E i \in 1..Len(relatedArtists) :
                            Credits(t, relatedArtists[i])
      shared == CandidateMetadata(t) \cap seedMetadata
  IN [track |-> t,
      score |-> (IF isSameArtist THEN 10 ELSE 0)
                + (IF isRelatedArtist THEN RelatedArtistScore ELSE 0)
                + MoodWordScore * Cardinality(shared)
                + (IF t.source = "lastfm" THEN LastFmScore ELSE 0),
      isSameArtist |-> isSameArtist,
      isRelatedArtist |-> isRelatedArtist]

\* lines 2777-2817: the score of one candidate
ScoreOf(t) ==
  LET isSameArtist == Credits(t, seedArtist)
      isRelatedArtist == \E i \in 1..Len(relatedArtists) :
                            Credits(t, relatedArtists[i])
      shared == CandidateMetadata(t) \cap seedMetadata
  IN [track |-> t,
      score |-> (IF isSameArtist THEN SameArtistScore ELSE 0)
                + (IF isRelatedArtist THEN RelatedArtistScore ELSE 0)
                + MoodWordScore * Cardinality(shared)
                + (IF t.source = "lastfm" THEN LastFmScore ELSE 0),
      isSameArtist |-> isSameArtist,
      isRelatedArtist |-> isRelatedArtist]

\* Array.prototype.sort((a, b) => b.score - a.score): stable, descending
RECURSIVE InsertByScore(_, _)
InsertByScore(sorted, e) ==
  IF sorted = <<>> THEN <<e>>
  ELSE IF Head(sorted).score >= e.score
       THEN <<Head(sorted)>> \o InsertByScore(Tail(sorted), e)
       ELSE <<e>> \o sorted

SortByScore(s) ==
  LET f[i \in 0..Len(s)] ==
        IF i = 0 THEN <<>> ELSE InsertByScore(f[i - 1], s[i])
  IN f[Len(s)]

\* lines 2764-2818
ScoredOf(cands) ==
  LET kept == SelectSeq2(cands, KeepCandidate)
  IN SortByScore([i \in 1..Len(kept) |-> ScoreOf(kept[i])])

ScoreTracks ==
  /\ pc = "score"
  /\ scoredTracks' = ScoredOf(candidateTracks)
  /\ pc' = "selLastFm"
  /\ UNCHANGED <<inputVars, moodVars, accessToken, seedSearch, seedTrack, seedArtistGenres,
                 relatedArtists, relIdx, searchIdx, lfmLeft, quota, gatherVars,
                 excludeIds, libraryFailed, finalTracks, artistCount,
                 sameArtistTotal, tracks, result>>

(* -------------------------- diversity selection ------------------------ *)
\* line 2825
maxSameArtistTracks == 2

\* line 2828
maxTracksPerArtist == 1

\* line 2826: Math.max(5, Math.floor(limit * 0.6))
minRelatedArtistTracks == Max(5, (limit * 6) \div 10)

\* line 2827: Math.max(3, Math.floor(limit * 0.3))
minGenreSearchTracks == Max(3, (limit * 3) \div 10)

\* candidateTracks.find((ct) => ct.id === id)?.source
SourceOf(id) ==
  LET hit(c) == c.id = id
      i == FirstIndex(candidateTracks, hit)
  IN IF i = 0 THEN "undefined" ELSE candidateTracks[i].source

\* lines 2832-2843: the groups the selection draws from
seedArtistTracks ==
  LET p(st) == st.isSameArtist IN SelectSeq2(scoredTracks, p)

relatedArtistTracks ==
  LET p(st) == st.isRelatedArtist /\ ~st.isSameArtist
  IN SelectSeq2(scoredTracks, p)

lastFmTracks ==
  LET p(st) == SourceOf(st.track.id) = "lastfm" IN SelectSeq2(scoredTracks, p)

\* genreSearchTracks taken from the candidates as gathered, before the sort
genreSearchTracks_unsorted ==
  LET kept == SelectSeq2(candidateTracks, KeepCandidate)
      p(st) == SourceOf(st.track.id) = "genre_search"
  IN SelectSeq2([i \in 1..Len(kept) |-> ScoreOf(kept[i])], p)

genreSearchTracks ==
  LET p(st) == SourceOf(st.track.id) = "genre_search"
  IN SelectSeq2(scoredTracks, p)

otherTracks ==
  LET p(st) == /\ ~st.isSameArtist
               /\ ~st.isRelatedArtist
               /\ SourceOf(st.track.id) # "genre_search"
               /\ SourceOf(st.track.id) # "lastfm"
  IN SelectSeq2(scoredTracks, p)

\* track.artists[0]?.name || ""
ArtistKey(t) == IF Len(t.artists) = 0 THEN "" ELSE t.artists[1]

\* finalTracks.some((t) => t.id === id)
InFinal(sel, id) == \E i \in 1..Len(sel.final) : sel.final[i].id = id

\* Push without the update of artistCount
Push_noCount(sel, t) == [sel EXCEPT !.final = Append(@, t)]

\* artistCount.set(artistKey, count + 1); finalTracks.push(track)
Push(sel, t) ==
  [sel EXCEPT !.final = Append(@, t),
              !.count = [@ EXCEPT ![ArtistKey(t)] = @ + 1]]

\* a selection loop: stop once limit tracks are chosen, else push every
\* entry the stage admits
FillLoop(group, sel, Admit(_, _), Add(_, _)) ==
  LET f[i \in 0..Len(group)] ==
        IF i = 0 THEN sel
        ELSE LET chosen == f[i - 1]
             IN IF Len(chosen.final) >= limit THEN chosen
                ELSE IF Admit(chosen, group[i]) THEN Add(chosen, group[i].track)
                ELSE chosen
  IN f[Len(group)]

\* AdmitLastFm without the skip of line 2856
AdmitLastFm_noSkip(sel, e) == ~InFinal(sel, e.track.id)

\* AdmitLastFm with the per-artist test but without the seed-artist test
AdmitLastFm_noSeedTest(sel, e) ==
  /\ ~InFinal(sel, e.track.id)
  /\ sel.count[ArtistKey(e.track)] < maxTracksPerArtist

\* lines 2855-2858: stage 1 admits a Last.fm track
AdmitLastFm(sel, e) ==
  /\ ~InFinal(sel, e.track.id)
  /\ ~(ArtistKey(e.track) = seedArtist
       \/ sel.count[ArtistKey(e.track)] >= maxTracksPerArtist)

\* lines 2871-2874: stage 2 admits a related-artist track
AdmitRelated(sel, e) ==
  /\ e.isRelatedArtist
  /\ ArtistKey(e.track) # seedArtist
  /\ sel.count[ArtistKey(e.track)] < maxTracksPerArtist
  /\ ~InFinal(sel, e.track.id)

\* lines 2893-2896: stage 3 admits a genre-search track
AdmitGenre(sel, e) ==
  /\ ~InFinal(sel, e.track.id)
  /\ ~(ArtistKey(e.track) = seedArtist
       \/ sel.count[ArtistKey(e.track)] >= maxTracksPerArtist)

\* line 2911: the seed-artist stage admits a track
AdmitSeedArtist(sel, e) ==
  /\ e.isSameArtist
  /\ ArtistKey(e.track) = seedArtist
  /\ sel.total < maxSameArtistTracks

\* lines 2912-2914
PushSeedArtist(sel, t) == [Push(sel, t) EXCEPT !.total = @ + 1]

\* lines 2928-2932: the fill stage admits a leftover track
AdmitOther(sel, e) ==
  /\ ArtistKey(e.track) # seedArtist
  /\ ~InFinal(sel, e.track.id)
  /\ sel.count[ArtistKey(e.track)] < maxTracksPerArtist

\* lines 2959-2964 and 2978-2982: the final boost admits a track
AdmitBoostRelated(sel, e) ==
  /\ e.isRelatedArtist
  /\ ~InFinal(sel, e.track.id)
  /\ sel.count[ArtistKey(e.track)] < maxTracksPerArtist
  /\ ArtistKey(e.track) # seedArtist

AdmitBoostGenre(sel, e) ==
  /\ ~InFinal(sel, e.track.id)
  /\ ArtistKey(e.track) # seedArtist
  /\ sel.count[ArtistKey(e.track)] < maxTracksPerArtist

\* the selection variables as one record, and back
Selection ==
  [final |-> finalTracks, count |-> artistCount, total |-> sameArtistTotal]

Selected(sel) ==
  /\ finalTracks' = sel.final
  /\ artistCount' = sel.count
  /\ sameArtistTotal' = sel.total

selectFrame ==
  UNCHANGED <<inputVars, moodVars, accessToken, seedSearch, seedTrack, seedArtistGenres,
              relatedArtists, relIdx, searchIdx, lfmLeft, quota, gatherVars,
              excludeIds, libraryFailed, scoredTracks, tracks, result>>

\* lines 2850-2862
SelectLastFm ==
  /\ pc = "selLastFm"
  /\ Selected(FillLoop(lastFmTracks, Selection, AdmitLastFm, Push))
  /\ pc' = "selRelated"
  /\ selectFrame

\* lines 2865-2879
SelectRelated ==
  /\ pc = "selRelated"
  /\ Selected(IF Len(finalTracks) < limit
              THEN FillLoop(relatedArtistTracks, Selection, AdmitRelated, Push)
              ELSE Selection)
  /\ pc' = "selGenre"
  /\ selectFrame

\* finalTracks.filter(track => genreSearchTracks.some(id)).length
GenreCount(final) ==
  Cardinality({i \in 1..Len(final) :
                 \E k \in 1..Len(genreSearchTracks) :
                    genreSearchTracks[k].track.id = final[i].id})

\* lines 2882-2902
SelectGenre ==
  /\ pc = "selGenre"
  /\ Selected(IF /\ Len(finalTracks) < limit
                 /\ (GenreCount(finalTracks) < minGenreSearchTracks
                     \/ Len(finalTracks) < limit)
              THEN FillLoop(genreSearchTracks, Selection, AdmitGenre, Push)
              ELSE Selection)
  /\ pc' = "selSeed"
  /\ selectFrame

\* line 2906: Math.floor(limit * 0.6)
SeedArtistGate == (limit * 6) \div 10

\* SelectSeedArtist without the test of line 2906
SelectSeedArtist_noGate ==
  /\ pc = "selSeed"
  /\ Selected(FillLoop(Slice(seedArtistTracks, maxSameArtistTracks),
                       Selection, AdmitSeedArtist, PushSeedArtist))
  /\ pc' = "selOther"
  /\ selectFrame

\* lines 2906-2917
SelectSeedArtist ==
  /\ pc = "selSeed"
  /\ Selected(IF Len(finalTracks) >= SeedArtistGate
              THEN FillLoop(Slice(seedArtistTracks, maxSameArtistTracks),
                            Selection, AdmitSeedArtist, PushSeedArtist)
              ELSE Selection)
  /\ pc' = "selOther"
  /\ selectFrame

\* lines 2921-2937
SelectOther ==
  /\ pc = "selOther"
  /\ Selected(IF Len(finalTracks) < limit
              THEN FillLoop(otherTracks, Selection, AdmitOther, Push)
              ELSE Selection)
  /\ pc' = "boost"
  /\ selectFrame

\* finalTracks.filter(track => relatedArtists.some(...)).length
RelatedCount(final) ==
  Cardinality({i \in 1..Len(final) :
                 \E k \in 1..Len(relatedArtists) :
                    Credits(final[i], relatedArtists[k])})

\* lines 2940-2988
FinalBoost ==
  /\ pc = "boost"
  /\ LET relatedCount == RelatedCount(finalTracks)
         genreCount == GenreCount(finalTracks)
         boosted == IF relatedCount < minRelatedArtistTracks
                    THEN FillLoop(relatedArtistTracks, Selection,
                                  AdmitBoostRelated, Push)
                    ELSE Selection
     IN Selected(IF Len(finalTracks) < limit
                 THEN (IF genreCount < minGenreSearchTracks
                       THEN FillLoop(genreSearchTracks, boosted,
                                     AdmitBoostGenre, Push)
                       ELSE boosted)
                 ELSE Selection)
  /\ pc' = "finish"
  /\ selectFrame

\* lines 2990-3007
Finish ==
  /\ pc = "finish"
  /\ LET out == Slice(finalTracks, limit)
     IN IF Len(out) = 0
        THEN Return("No similar tracks found", <<>>)
        ELSE Return("Tracks Similar to", out)
  /\ UNCHANGED <<inputVars, moodVars, accessToken, seedSearch, seedTrack, seedArtistGenres,
                 relatedArtists, relIdx, searchIdx, lfmLeft, quota, gatherVars,
                 excludeIds, libraryFailed, selectVars>>

(* ------------- findSimilarTracks of part_001 (Last.fm only) ------------ *)
\* part_001 lines 2612-2620: the Last.fm lookup; an empty list ends the call
OldFetchLastFm ==
  /\ pc = "oldLastfm"
  /\ \E hasKey \in BOOLEAN, outcome \in Outcomes, n \in 0..MaxLfm :
       LET got == getLastFmSimilarTracks(hasKey, outcome, n)
       IN IF got = 0
          THEN Return("No similar tracks found on Last.fm", <<>>)
               /\ UNCHANGED lfmLeft
          ELSE /\ lfmLeft' = got
               /\ pc' = "exclude"
               /\ UNCHANGED <<result, tracks>>
  /\ UNCHANGED <<inputVars, moodVars, accessToken, seedSearch, seedTrack, seedArtistGenres,
                 relatedArtists, relIdx, searchIdx, quota, gatherVars,
                 excludeIds, libraryFailed, selectVars>>

\* part_001 line 2671: the low-score test, in hundredths
OldLowMatch == 10

\* OldKeep without the test against the seed's name
OldKeep_noSeedTest(t) ==
  LET key == normalizeTrackNameForComparison(t.name)
  IN /\ key \notin seenNormalizedNames
     /\ t.id \notin excludeIds

\* part_001 lines 2720-2746: the track an entry resolved to is kept unless
\* it is a variant of the seed, a name already seen or a library track
OldKeep(t) ==
  LET key == normalizeTrackNameForComparison(t.name)
  IN /\ key # seedNormalizedName
     /\ key \notin seenNormalizedNames
     /\ t.id \notin excludeIds

\* part_001 lines 2667-2752: one entry of the Last.fm list
OldLastFmStep ==
  /\ pc = "oldStep"
  /\ lfmLeft > 0
  /\ Len(finalTracks) < limit
  /\ \E match \in MatchScores, target \in LfmTargets,
        answer \in Answers(LfmPool, quota) :
       LET picked == IF match < OldLowMatch THEN <<>>
                     ELSE LfmPick(target, answer)
       IN /\ IF picked # <<>> /\ OldKeep(picked[1])
             THEN /\ seenNormalizedNames' = seenNormalizedNames \cup
                        {normalizeTrackNameForComparison(picked[1].name)}
                  /\ finalTracks' =
                       Append(finalTracks,
                              [id |-> picked[1].id, name |-> picked[1].name,
                               artists |-> picked[1].artists,
                               match |-> match])
             ELSE UNCHANGED <<seenNormalizedNames, finalTracks>>
          /\ quota' = quota - Len(answer.items)
          /\ lfmMatch' = match
  /\ lfmLeft' = lfmLeft - 1
  /\ pc' = IF lfmLeft' = 0 \/ Len(finalTracks') >= limit
           THEN "oldFinish" ELSE "oldStep"
  /\ UNCHANGED <<callVars, settled, moodVars, accessToken, seedSearch, seedTrack, seedArtistGenres,
                 relatedArtists, relIdx, searchIdx, candidateTracks, offered,
                 excludeIds, libraryFailed, scoredTracks, artistCount,
                 sameArtistTotal, tracks, result>>

\* Array.prototype.sort((a, b) => b.match - a.match): stable, descending
RECURSIVE InsertByMatch(_, _)
InsertByMatch(sorted, e) ==
  IF sorted = <<>> THEN <<e>>
  ELSE IF Head(sorted).match >= e.match
       THEN <<Head(sorted)>> \o InsertByMatch(Tail(sorted), e)
       ELSE <<e>> \o sorted

SortByMatch(s) ==
  LET f[i \in 0..Len(s)] ==
        IF i = 0 THEN <<>> ELSE InsertByMatch(f[i - 1], s[i])
  IN f[Len(s)]

\* part_001 lines 2754-2773
OldFinish ==
  /\ pc = "oldFinish"
  /\ finalTracks' = SortByMatch(finalTracks)
  /\ LET out == Slice(finalTracks', limit)
     IN IF Len(out) = 0
        THEN Return("No similar tracks found", <<>>)
        ELSE Return("Tracks Similar to", out)
  /\ lfmMatch' = NoMatch
  /\ UNCHANGED <<callVars, settled, moodVars, accessToken, seedSearch, seedTrack, seedArtistGenres,
                 relatedArtists, relIdx, searchIdx, lfmLeft, quota, gatherVars,
                 excludeIds, libraryFailed, scoredTracks, artistCount,
                 sameArtistTotal>>

(* -------------------------- generatePlaylistByMood --------------------- *)
\* the locals of findSimilarTracks, which generatePlaylistByMood leaves alone
findVars == <<seedSearch, seedTrack, seedArtistGenres, relatedArtists, relIdx, lfmLeft,
              gatherVars, selectVars>>

\* outcome of a call whose body is read: "badjson" is a success status with
\* a body that cannot be parsed
BodyOutcomes == Outcomes \cup {"badjson"}

\* the ids of a library listing, as the sequence the service answers with
RECURSIVE SeqOfIds(_)
SeqOfIds(S) ==
  IF S = {} THEN <<>>
  ELSE LET least == CHOOSE x \in S : \A y \in S : x <= y
       IN <<least>> \o SeqOfIds(S \ {least})

\* lines 3150 (part_001 line 2932): the access token
MoodToken ==
  /\ pc = "moodToken"
  /\ \E storedCode \in Outcomes, stored \in StoredStates, exchange \in Outcomes :
       LET got == getAccessToken(authCode, storedCode, stored, exchange)
       IN /\ callFailed' = (\/ callFailed
                          \/ got = "throw"
                          \/ stored \in {"stale", "throw"}
                          \/ (~authCode /\ storedCode # "ok"))
          /\ IF got = "throw"
             THEN Throw(MoodCatchAll) /\ UNCHANGED accessToken
             ELSE /\ accessToken' = got
                  /\ pc' = "profile"
                  /\ UNCHANGED <<result, tracks>>
  /\ UNCHANGED <<inputVars, topArtists, topTracks, likedTracks, trackUris,
                 addedIds, playlistCalls, libraryAnswers, findVars, searchIdx, quota, excludeIds,
                 libraryFailed>>

\* lines 3153-3164 (part_001 lines 2935-2946): the user profile
MoodProfile ==
  /\ pc = "profile"
  /\ \E outcome \in BodyOutcomes :
       /\ callFailed' = (callFailed \/ outcome # "ok")
       /\ IF outcome \in {"throw", "badjson"} THEN Throw(MoodCatchAll)
          ELSE IF outcome = "notok"
          THEN Return("Failed to get user profile.", <<>>)
          ELSE pc' = "library" /\ UNCHANGED <<result, tracks>>
  /\ UNCHANGED <<inputVars, topArtists, topTracks, likedTracks, trackUris,
                 addedIds, playlistCalls, libraryAnswers, findVars, accessToken, searchIdx, quota,
                 excludeIds, libraryFailed>>

\* who the user's top artist may be
TopArtistPool == {"R1"}

\* lines 3167-3207: top artists, top tracks, liked tracks and the exclusion
\* set; only the liked-tracks fetch has a catch of its own
MoodLibrary ==
  /\ pc = "library"
  /\ version = "tools.ts"
  /\ \E artistsOutcome \in BodyOutcomes, artists \in DistinctSeqs(TopArtistPool, 1),
        topOutcome \in BodyOutcomes, likedOutcome \in BodyOutcomes :
       /\ libraryAnswers' = [artists |-> artistsOutcome, top |-> topOutcome,
                             liked |-> likedOutcome]
       /\ callFailed' = (callFailed \/ artistsOutcome # "ok" \/ topOutcome # "ok"
                                     \/ likedOutcome # "ok")
       /\ IF \/ artistsOutcome \in {"throw", "badjson"}
             \/ topOutcome \in {"throw", "badjson"}
             \/ likedOutcome = "badjson"
          THEN /\ Throw(MoodCatchAll)
               /\ UNCHANGED <<topArtists, topTracks, likedTracks, excludeIds,
                              libraryFailed>>
          ELSE /\ topArtists' = IF artistsOutcome = "ok" THEN artists ELSE <<>>
               /\ topTracks' = IF topOutcome = "ok" THEN SeqOfIds(userTop) ELSE <<>>
               /\ likedTracks' = IF likedOutcome = "ok" THEN SeqOfIds(userLiked)
                                 ELSE <<>>
               /\ excludeIds' = IF familiarity = "new"
                                THEN Range(topTracks') \cup Range(likedTracks')
                                ELSE {}
               /\ libraryFailed' = (topOutcome # "ok" \/ likedOutcome # "ok")
               /\ pc' = "moodRelated"
               /\ UNCHANGED <<result, tracks>>
  /\ UNCHANGED <<inputVars, findVars, accessToken, searchIdx, quota, trackUris,
                 addedIds, playlistCalls>>

\* lines 3210-3230: related artists of the first three top artists; every
\* failure is caught and relatedArtistIds is not read afterwards
MoodRelatedArtists ==
  /\ pc = "moodRelated"
  /\ \E outcomes \in [1..Len(Slice(topArtists, 3)) -> Outcomes] :
       callFailed' = (callFailed \/ \E i \in DOMAIN outcomes : outcomes[i] # "ok")
  /\ pc' = "moodSearch"
  /\ UNCHANGED <<inputVars, topArtists, topTracks, likedTracks, trackUris,
                 addedIds, playlistCalls, libraryAnswers, findVars, accessToken, searchIdx, quota,
                 excludeIds, libraryFailed, tracks, result>>

\* lines 3239-3249: moodSearchMap[mood] || [mood]
MoodSearchTerms(m) ==
  CASE m = "chill" -> <<"mellow", "ambient", "lo-fi", "acoustic">>
    [] m = "sad" -> <<"melancholic", "emotional", "heartbreak">>
    [] OTHER -> <<m>>

\* lines 3251-3254: two terms and, with a top artist, one term with its name
SearchQueries ==
  LET terms == MoodSearchTerms(mood)
      plain == [i \in 1..Len(Slice(terms, 2)) |-> <<terms[i]>>]
  IN IF topArtists # <<>> THEN Append(plain, <<terms[1], topArtists[1]>>)
     ELSE plain

\* what a mood search may answer with
MoodPool == TracksOf({1, 3, 9, 11})

\* line 3283
CommonWords == {"the", "a", "an", "is", "are", "in", "on"}

\* line 3297: the size at which the loop over one answer stops
MoodCap == 15

\* MoodAddLoop without the test of excludeIds
MoodAddLoop_noExclusion(items, uris, ids) ==
  LET literal(t) == /\ LowerTok(mood) \notin CommonWords
                    /\ NameIncludes(t.name, LowerTok(mood))
      f[i \in 0..Len(items)] ==
        IF i = 0 THEN [uris |-> uris, ids |-> ids, stop |-> FALSE]
        ELSE LET g == f[i - 1]
                 t == items[i]
             IN IF g.stop \/ literal(t) THEN g
                ELSE IF t.id \notin g.ids
                THEN [uris |-> Append(g.uris, t.id),
                      ids |-> g.ids \cup {t.id},
                      stop |-> Len(g.uris) + 1 >= MoodCap]
                ELSE g
  IN f[Len(items)]

\* lines 3276-3299: the loop over the hits of one search
MoodAddLoop(items, uris, ids) ==
  LET literal(t) == /\ LowerTok(mood) \notin CommonWords
                    /\ NameIncludes(t.name, LowerTok(mood))
      f[i \in 0..Len(items)] ==
        IF i = 0 THEN [uris |-> uris, ids |-> ids, stop |-> FALSE]
        ELSE LET g == f[i - 1]
                 t == items[i]
             IN IF g.stop \/ literal(t) THEN g
                ELSE IF /\ t.id \notin g.ids
                        /\ (familiarity # "new" \/ t.id \notin excludeIds)
                THEN [uris |-> Append(g.uris, t.id),
                      ids |-> g.ids \cup {t.id},
                      stop |-> Len(g.uris) + 1 >= MoodCap]
                ELSE g
  IN f[Len(items)]

\* lines 3260-3304: one search query, answered with one of answers; a
\* failure of the search is caught
MoodSearchWith(answers) ==
  /\ pc = "moodSearch"
  /\ searchIdx < Len(SearchQueries)
  /\ \E answer \in answers :
       LET g == MoodAddLoop(answer.items, trackUris, addedIds)
       IN /\ trackUris' = g.uris
          /\ addedIds' = g.ids
          /\ quota' = quota - Len(answer.items)
          /\ callFailed' = (callFailed \/ answer.outcome # "ok")
  /\ searchIdx' = searchIdx + 1
  /\ pc' = IF searchIdx' >= Len(SearchQueries) THEN "familiar" ELSE "moodSearch"
  /\ UNCHANGED <<inputVars, findVars, libraryAnswers, accessToken,
                 excludeIds, libraryFailed,
                 topArtists, topTracks, likedTracks, playlistCalls, tracks,
                 result>>

\* line 3262: the search of a whole call
MoodSearch == MoodSearchWith(Answers(MoodPool, quota))

\* FamiliarLoop without the test of addedIds
FamiliarLoop_noSeenTest(items, uris, ids) ==
  LET f[i \in 0..Len(items)] ==
        IF i = 0 THEN [uris |-> uris, ids |-> ids]
        ELSE LET g == f[i - 1]
             IN IF Len(g.uris) < MoodCap
                THEN [uris |-> Append(g.uris, items[i]),
                      ids |-> g.ids \cup {items[i]}]
                ELSE g
  IN f[Len(items)]

\* lines 3308-3313: top tracks not yet added, while there is room
FamiliarLoop(items, uris, ids) ==
  LET f[i \in 0..Len(items)] ==
        IF i = 0 THEN [uris |-> uris, ids |-> ids]
        ELSE LET g == f[i - 1]
             IN IF items[i] \notin g.ids /\ Len(g.uris) < MoodCap
                THEN [uris |-> Append(g.uris, items[i]),
                      ids |-> g.ids \cup {items[i]}]
                ELSE g
  IN f[Len(items)]

\* lines 3306-3314
MoodFamiliarFill ==
  /\ pc = "familiar"
  /\ LET g == IF familiarity = "familiar" /\ Len(trackUris) < MoodCap
              THEN FamiliarLoop(topTracks, trackUris, addedIds)
              ELSE [uris |-> trackUris, ids |-> addedIds]
     IN /\ trackUris' = g.uris
        /\ addedIds' = g.ids
  /\ pc' = "create"
  /\ UNCHANGED <<inputVars, findVars, libraryAnswers, accessToken,
                 searchIdx, quota, excludeIds,
                 libraryFailed, topArtists, topTracks, likedTracks,
                 playlistCalls, callFailed, tracks, result>>

\* part_001 lines 2949-3082: top and liked tracks, the exclusion set and the
\* gathering.  The body of the top-tracks answer is read at line 2960 and
\* again at line 2988; a body can be read once, so the second read throws
\* whenever the first took place.  Line 2998 is therefore reached only with
\* topTracksWithMetadata.items empty, and none of the loops over it (lines
\* 3000, 3011, 3074) adds a track.
MoodGatherOld ==
  /\ pc = "library"
  /\ version = "part_001"
  /\ \E topOutcome \in BodyOutcomes, likedOutcome \in BodyOutcomes :
       /\ libraryAnswers' = [artists |-> "none", top |-> topOutcome,
                             liked |-> likedOutcome]
       /\ callFailed' = (callFailed \/ topOutcome # "ok" \/ likedOutcome # "ok")
       /\ IF topOutcome \in {"throw", "badjson", "ok"} \/ likedOutcome = "badjson"
          THEN /\ Throw(MoodCatchAll)
               /\ UNCHANGED <<topTracks, likedTracks, excludeIds, libraryFailed>>
          ELSE /\ topTracks' = <<>>
               /\ likedTracks' = IF likedOutcome = "ok" THEN SeqOfIds(userLiked)
                                 ELSE <<>>
               /\ excludeIds' = IF familiarity = "new"
                                THEN Range(topTracks') \cup Range(likedTracks')
                                ELSE {}
               /\ libraryFailed' = TRUE
               /\ pc' = "create"
               /\ UNCHANGED <<result, tracks>>
  /\ UNCHANGED <<inputVars, findVars, accessToken, searchIdx, quota, topArtists,
                 trackUris, addedIds, playlistCalls>>

\* MoodCreate that issues the create call again after a non-success answer
MoodCreate_retry ==
  /\ pc = "create"
  /\ playlistCalls' = Append(playlistCalls, "create")
  /\ \E outcome \in Outcomes, readable \in BOOLEAN :
       /\ callFailed' = (callFailed \/ outcome # "ok" \/ ~readable)
       /\ IF outcome = "throw" \/ ~readable THEN Throw(MoodCatchAll)
          ELSE IF outcome = "notok"
          THEN pc' = "create" /\ UNCHANGED <<result, tracks>>
          ELSE pc' = "add" /\ UNCHANGED <<result, tracks>>
  /\ UNCHANGED <<inputVars, findVars, libraryAnswers, accessToken,
                 searchIdx, quota, excludeIds,
                 libraryFailed, topArtists, topTracks, likedTracks, trackUris,
                 addedIds>>

\* lines 3317-3342 (part_001 lines 3085-3111): the playlist is created;
\* readable: the body of the answer can be read
MoodCreate ==
  /\ pc = "create"
  /\ playlistCalls' = Append(playlistCalls, "create")
  /\ \E outcome \in Outcomes, readable \in BOOLEAN :
       /\ callFailed' = (callFailed \/ outcome # "ok" \/ ~readable)
       /\ IF outcome = "throw" \/ ~readable THEN Throw(MoodCatchAll)
          ELSE IF outcome = "notok"
          THEN Return("Failed to create playlist.", <<>>)
          ELSE pc' = "add" /\ UNCHANGED <<result, tracks>>
  /\ UNCHANGED <<inputVars, findVars, libraryAnswers, accessToken,
                 searchIdx, quota, excludeIds,
                 libraryFailed, topArtists, topTracks, likedTracks, trackUris,
                 addedIds>>

\* MoodAdd without the test of trackUris.length: the add call is issued for
\* an empty list too
MoodAdd_noEmptyTest ==
  /\ pc = "add"
  /\ playlistCalls' = Append(playlistCalls, "add")
  /\ \E outcome \in Outcomes :
       /\ callFailed' = (callFailed \/ outcome # "ok")
       /\ IF outcome = "throw" THEN Throw(MoodCatchAll)
          ELSE IF outcome = "notok"
          THEN Return("Playlist created but failed to add tracks.", <<>>)
          ELSE Return("Playlist Created", <<>>)
  /\ UNCHANGED <<inputVars, findVars, libraryAnswers, accessToken,
                 searchIdx, quota, excludeIds,
                 libraryFailed, topArtists, topTracks, likedTracks, trackUris,
                 addedIds>>

\* lines 3344-3363 (part_001 lines 3113-3132): the tracks are added
MoodAdd ==
  /\ pc = "add"
  /\ IF Len(trackUris) > 0
     THEN /\ playlistCalls' = Append(playlistCalls, "add")
          /\ \E outcome \in Outcomes :
               /\ callFailed' = (callFailed \/ outcome # "ok")
               /\ IF outcome = "throw" THEN Throw(MoodCatchAll)
                  ELSE IF outcome = "notok"
                  THEN Return("Playlist created but failed to add tracks.",
                              <<>>)
                  ELSE Return("Playlist Created", <<>>)
     ELSE /\ Return("Playlist Created", <<>>)
          /\ UNCHANGED <<playlistCalls, callFailed>>
  /\ UNCHANGED <<inputVars, findVars, libraryAnswers, accessToken,
                 searchIdx, quota, excludeIds,
                 libraryFailed, topArtists, topTracks, likedTracks, trackUris,
                 addedIds>>

Next ==
  \/ GetToken
  \/ SearchSeed
  \/ FetchArtistGenres
  \/ FetchRelatedArtists
  \/ GatherSeedArtist
  \/ GatherRelatedArtist
  \/ GatherGenreSearch
  \/ FetchLastFm
  \/ LastFmStep
  \/ FetchUserTracks
  \/ ExcludeUserTracks
  \/ ScoreTracks
  \/ SelectLastFm
  \/ SelectRelated
  \/ SelectGenre
  \/ SelectSeedArtist
  \/ SelectOther
  \/ FinalBoost
  \/ Finish
  \/ OldFetchLastFm
  \/ OldLastFmStep
  \/ OldFinish
  \/ MoodToken
  \/ MoodProfile
  \/ MoodLibrary
  \/ MoodRelatedArtists
  \/ MoodSearch
  \/ MoodFamiliarFill
  \/ MoodGatherOld
  \/ MoodCreate
  \/ MoodAdd

Spec == Init /\ [][Next]_vars

(* ------------------- the selection run on its own ---------------------- *)
\* The candidates a gathering can end with, as (track, source) pairs: the
\* seed-artist source lists tracks crediting the seed artist, the
\* related-artist source tracks crediting a related artist, the genre
\* search tracks not crediting the seed artist, Last.fm any track.
SelCandidates ==
  {Candidate(TrackById(id), "seed_artist") : id \in {3, 4, 13, 8}}
    \cup {Candidate(TrackById(id), "related_artist") : id \in {5, 6, 8}}
    \cup {Candidate(TrackById(id), "genre_search") : id \in {9, 11}}
    \cup {Candidate(TrackById(id), "lastfm") : id \in {3, 5, 9}}

\* the order in which the sources are gathered
SourceRank(source) ==
  CASE source = "seed_artist" -> 1
    [] source = "related_artist" -> 2
    [] source = "genre_search" -> 3
    [] source = "lastfm" -> 4

\* a set of candidates as the list the gathering builds: by source, and by
\* id within a source
RECURSIVE SeqOfCandidates(_)
SeqOfCandidates(S) ==
  IF S = {} THEN <<>>
  ELSE LET before(c, d) == \/ SourceRank(c.source) < SourceRank(d.source)
                           \/ /\ c.source = d.source
                              /\ c.id <= d.id
           first == CHOOSE c \in S : \A d \in S : before(c, d)
       IN <<first>> \o SeqOfCandidates(S \ {first})

\* the candidate lists: every track at most once, at most MaxCand tracks
CandidateLists ==
  {SeqOfCandidates(S) :
     S \in {T \in SUBSET SelCandidates :
              /\ Cardinality(T) <= MaxCand
              /\ \A c, d \in T : c.id = d.id => c = d}}

\* the related artists the selection is run with
SelRelated == {<<"R1", "R2">>, <<"R1">>}

\* the state of a call of tools.ts at line 2750, the gathering done
InitSel ==
  /\ tool = "findSimilarTracks"
  /\ version = "tools.ts"
  /\ pc = "score"
  /\ limit \in 1..MaxSelLimit
  /\ trackQuery = PlainQuery
  /\ mood = ""
  /\ familiarity = "mixed"
  /\ \E lib \in Libraries :
       /\ userTop = lib.top
       /\ userLiked = lib.liked
       /\ excludeIds = lib.top \cup lib.liked
       /\ excludeUserTracks = (excludeIds # {})
       /\ authCode = excludeUserTracks
       /\ accessToken = IF excludeUserTracks THEN "user" ELSE "client"
  /\ seedSearch = "hits"
  /\ seedTrack = TrackById(1)
  /\ seedArtistGenres = <<"chill">>
  /\ relatedArtists \in SelRelated
  /\ relIdx = Len(relatedArtists) + 1
  /\ searchIdx = NumSearches
  /\ lfmLeft = 0
  /\ lfmMatch = NoMatch
  /\ settled = <<>>
  /\ quota = 0
  /\ candidateTracks \in CandidateLists
  /\ seenNormalizedNames =
       {normalizeTrackNameForComparison(candidateTracks[i].name) :
          i \in 1..Len(candidateTracks)}
  /\ offered = <<>>
  /\ libraryFailed = FALSE
  /\ scoredTracks = <<>>
  /\ finalTracks = <<>>
  /\ artistCount = NoArtistCount
  /\ sameArtistTotal = 0
  /\ tracks = <<>>
  /\ topArtists = <<>>
  /\ topTracks = <<>>
  /\ likedTracks = <<>>
  /\ trackUris = <<>>
  /\ addedIds = {}
  /\ playlistCalls = <<>>
  /\ libraryAnswers = NoAnswers
  /\ callFailed = FALSE
  /\ firstCall = NoRun
  /\ seedHits = <<>>
  /\ names = NoNames
  /\ result = "pending"

NextSel ==
  \/ ScoreTracks
  \/ SelectLastFm
  \/ SelectRelated
  \/ SelectGenre
  \/ SelectSeedArtist
  \/ SelectOther
  \/ FinalBoost
  \/ Finish

SpecSel == InitSel /\ [][NextSel]_vars

(* ------------------------------ scenario A ----------------------------- *)
\* a name of n tokens
LongName(word, n) == [k \in 1..n |-> word]

\* the artists of the related-artist candidates of the scenario
ScenarioArtists == <<"R1", "R2", "R3", "G1", "G2">>

\* 5 candidates by 5 distinct artists from the related-artist source, then
\* 15 candidates by the seed artist from Last.fm
ScenarioCandidates ==
  [i \in 1..5 |-> Candidate(Track(200 + i, LongName("na", i),
                                  <<ScenarioArtists[i]>>), "related_artist")]
    \o [i \in 1..15 |-> Candidate(Track(100 + i, LongName("la", i), <<"X">>),
                                  "lastfm")]

\* the related artists of the scenario: the catalog may name any of the
\* five artists as related to the seed artist
ScenarioRelated ==
  {SelectSeq2(ScenarioArtists, LAMBDA a : a \in S) : S \in SUBSET Range(ScenarioArtists)}

InitA ==
  /\ tool = "findSimilarTracks"
  /\ version = "tools.ts"
  /\ pc = "score"
  /\ limit = 10
  /\ excludeUserTracks = FALSE
  /\ authCode = FALSE
  /\ trackQuery = PlainQuery
  /\ userTop = {}
  /\ userLiked = {}
  /\ mood = ""
  /\ familiarity = "mixed"
  /\ accessToken = "client"
  /\ seedSearch = "hits"
  /\ seedTrack \in SeedSearchPool
  /\ seedArtistGenres \in GenreTags
  /\ relatedArtists \in ScenarioRelated
  /\ relIdx = Len(relatedArtists) + 1
  /\ searchIdx = NumSearches
  /\ lfmLeft = 0
  /\ lfmMatch = NoMatch
  /\ settled = <<>>
  /\ quota = 0
  /\ candidateTracks = ScenarioCandidates
  /\ seenNormalizedNames =
       {normalizeTrackNameForComparison(candidateTracks[i].name) :
          i \in 1..Len(candidateTracks)}
  /\ offered = <<>>
  /\ excludeIds = {}
  /\ libraryFailed = FALSE
  /\ scoredTracks = <<>>
  /\ finalTracks = <<>>
  /\ artistCount = NoArtistCount
  /\ sameArtistTotal = 0
  /\ tracks = <<>>
  /\ topArtists = <<>>
  /\ topTracks = <<>>
  /\ likedTracks = <<>>
  /\ trackUris = <<>>
  /\ addedIds = {}
  /\ playlistCalls = <<>>
  /\ libraryAnswers = NoAnswers
  /\ callFailed = FALSE
  /\ firstCall = NoRun
  /\ seedHits = <<>>
  /\ names = NoNames
  /\ result = "pending"

SpecA == InitA /\ [][NextSel]_vars

(* ----------------------- featured seed artist -------------------------- *)
\* the primary artists of the Last.fm candidates the seed artist is
\* featured on
FeaturingArtists == <<"R1", "R2", "G1", "G2">>

\* candidates from Last.fm that credit the seed artist in second position,
\* and candidates of the seed artist's own from the seed-artist source
FeaturedCandidates ==
  {Candidate(Track(300 + i, LongName("fa", i),
                   <<FeaturingArtists[i], SeedArtistName>>), "lastfm") :
     i \in 1..Len(FeaturingArtists)}
    \cup {Candidate(TrackById(id), "seed_artist") : id \in {3, 4}}
    \cup {Candidate(TrackById(id), "genre_search") : id \in {9}}

\* the state of a call of tools.ts at line 2750, gathered from these
InitF ==
  /\ tool = "findSimilarTracks"
  /\ version = "tools.ts"
  /\ pc = "score"
  /\ limit \in 1..MaxSelLimit
  /\ excludeUserTracks = FALSE
  /\ authCode = FALSE
  /\ trackQuery = PlainQuery
  /\ userTop = {}
  /\ userLiked = {}
  /\ mood = ""
  /\ familiarity = "mixed"
  /\ accessToken = "client"
  /\ seedSearch = "hits"
  /\ seedTrack = TrackById(1)
  /\ seedArtistGenres \in GenreTags
  /\ relatedArtists \in SelRelated
  /\ relIdx = Len(relatedArtists) + 1
  /\ searchIdx = NumSearches
  /\ lfmLeft = 0
  /\ lfmMatch = NoMatch
  /\ settled = <<>>
  /\ quota = 0
  /\ \E S \in SUBSET FeaturedCandidates :
       candidateTracks = SeqOfCandidates(S)
  /\ seenNormalizedNames =
       {normalizeTrackNameForComparison(candidateTracks[i].name) :
          i \in 1..Len(candidateTracks)}
  /\ offered = <<>>
  /\ excludeIds = {}
  /\ libraryFailed = FALSE
  /\ scoredTracks = <<>>
  /\ finalTracks = <<>>
  /\ artistCount = NoArtistCount
  /\ sameArtistTotal = 0
  /\ tracks = <<>>
  /\ topArtists = <<>>
  /\ topTracks = <<>>
  /\ likedTracks = <<>>
  /\ trackUris = <<>>
  /\ addedIds = {}
  /\ playlistCalls = <<>>
  /\ libraryAnswers = NoAnswers
  /\ callFailed = FALSE
  /\ firstCall = NoRun
  /\ seedHits = <<>>
  /\ names = NoNames
  /\ result = "pending"

SpecF == InitF /\ [][NextSel]_vars

(* ------------------ the Last.fm loop after a long gathering ------------ *)
\* the candidates gathered before line 2630: the 20 of scenario A, or one
\* more from the genre search
ManyCandidateLists ==
  { ScenarioCandidates,
    ScenarioCandidates
      \o <<Candidate(Track(221, LongName("ga", 1), <<"G1">>), "genre_search")>> }

\* the state of a call of tools.ts at line 2634, the Last.fm list fetched
InitL ==
  /\ tool = "findSimilarTracks"
  /\ version = "tools.ts"
  /\ pc = "lfmStep"
  /\ limit \in Limits
  /\ excludeUserTracks = FALSE
  /\ authCode = FALSE
  /\ trackQuery = PlainQuery
  /\ userTop = {}
  /\ userLiked = {}
  /\ mood = ""
  /\ familiarity = "mixed"
  /\ accessToken = "client"
  /\ seedSearch = "hits"
  /\ seedTrack = TrackById(1)
  /\ seedArtistGenres \in GenreTags
  /\ relatedArtists \in SelRelated
  /\ relIdx = Len(relatedArtists) + 1
  /\ searchIdx = NumSearches
  /\ lfmLeft \in 1..MaxLfm
  /\ lfmMatch = NoMatch
  /\ settled = <<>>
  /\ quota = MaxTracks
  /\ candidateTracks \in ManyCandidateLists
  /\ seenNormalizedNames =
       {normalizeTrackNameForComparison(candidateTracks[i].name) :
          i \in 1..Len(candidateTracks)}
  /\ offered = <<>>
  /\ excludeIds = {}
  /\ libraryFailed = FALSE
  /\ scoredTracks = <<>>
  /\ finalTracks = <<>>
  /\ artistCount = NoArtistCount
  /\ sameArtistTotal = 0
  /\ tracks = <<>>
  /\ topArtists = <<>>
  /\ topTracks = <<>>
  /\ likedTracks = <<>>
  /\ trackUris = <<>>
  /\ addedIds = {}
  /\ playlistCalls = <<>>
  /\ libraryAnswers = NoAnswers
  /\ callFailed = FALSE
  /\ firstCall = NoRun
  /\ seedHits = <<>>
  /\ names = NoNames
  /\ result = "pending"

\* whole calls, and calls taken up at the Last.fm loop
SpecL == (Init \/ InitL) /\ [][Next]_vars

(* ------------- the mood search answered with whole pages ------------- *)
\* line 3263: limit=10, the most hits of one search
PageSize == 10

\* the tracks a search lists: none of them named after the mood
PageTrack(id) == Track(id, <<"p">>, <<"G1">>)

\* a page of n hits that starts at the track start
Page(start, n) == [i \in 1..n |-> PageTrack(start + i - 1)]

\* where a page may start; pages overlap, so a search lists tracks again
\* that an earlier one listed
PageStarts == {501, 506, 511, 521, 531}

\* how many hits a page may hold
PageLengths == {0, 1, 5, PageSize}

PageAnswers ==
  {[outcome |-> o, items |-> <<>>] : o \in {"notok", "throw"}}
    \cup {[outcome |-> "ok", items |-> Page(start, n)] :
            start \in PageStarts, n \in PageLengths}

\* the user's top tracks of the scenario: none, or twenty of the tracks the
\* searches list
PageTopTracks == {<<>>, [i \in 1..20 |-> 500 + i]}

\* generatePlaylistByMood of tools.ts at line 3256, every call before it
\* answered ok
InitP ==
  /\ tool = "generatePlaylistByMood"
  /\ version = "tools.ts"
  /\ pc = "moodSearch"
  /\ limit = 0
  /\ excludeUserTracks = FALSE
  /\ authCode = TRUE
  /\ trackQuery = PlainQuery
  /\ mood \in Moods
  /\ familiarity \in Familiarities
  /\ seedHits = <<>>
  /\ names = NoNames
  /\ firstCall = NoRun
  /\ accessToken = "user"
  /\ seedSearch = "pending"
  /\ seedTrack = NoTrack
  /\ seedArtistGenres = <<>>
  /\ relatedArtists = <<>>
  /\ relIdx = 1
  /\ searchIdx = 0
  /\ lfmLeft = 0
  /\ lfmMatch = NoMatch
  /\ settled = <<>>
  /\ quota = 3 * PageSize
  /\ candidateTracks = <<>>
  /\ seenNormalizedNames = {}
  /\ offered = <<>>
  /\ libraryFailed = FALSE
  /\ scoredTracks = <<>>
  /\ finalTracks = <<>>
  /\ artistCount = NoArtistCount
  /\ sameArtistTotal = 0
  /\ tracks = <<>>
  /\ topArtists \in DistinctSeqs(TopArtistPool, 1)
  /\ topTracks \in PageTopTracks
  /\ userTop = Range(topTracks)
  /\ userLiked = {}
  /\ likedTracks = <<>>
  /\ excludeIds = IF familiarity = "new" THEN Range(topTracks) ELSE {}
  /\ trackUris = <<>>
  /\ addedIds = {}
  /\ playlistCalls = <<>>
  /\ libraryAnswers = [artists |-> "ok", top |-> "ok", liked |-> "ok"]
  /\ callFailed = FALSE
  /\ result = "pending"

\* line 3262 answered with pages
MoodSearchPages == MoodSearchWith(PageAnswers)

NextP ==
  \/ MoodSearchPages
  \/ MoodFamiliarFill
  \/ MoodCreate
  \/ MoodAdd

SpecP == InitP /\ [][NextP]_vars

(* -------------------- two calls given the same answers ----------------- *)
\* a call of findSimilarTracks (tools.ts) with excludeUserTracks = true and an
\* authorization code (so that the library is fetched), made for a user whose
\* library holds no top track and no liked track; limit is the largest, so
\* that every gathered track can be returned
InitC ==
  /\ InitFind
  /\ version = "tools.ts"
  /\ excludeUserTracks
  /\ authCode
  /\ limit = MaxLimit
  /\ userTop = {}
  /\ userLiked = {}

\* s is a prefix of t
IsPrefix(s, t) == Len(s) <= Len(t) /\ \A i \in 1..Len(s) : s[i] = t[i]

\* the second call is given the answers the first was given by the catalog
\* and by Last.fm: the same seed once the search has answered, the same genres
\* and related artists once they are fetched, and the same tracks put before
\* the duplicate test, all of them once the gathering is over
SameResponses ==
  firstCall.made =>
    /\ seedSearch # "pending" => seedTrack = firstCall.seedTrack
    /\ pc \notin {"token", "search", "genres", "done"}
         => seedArtistGenres = firstCall.seedArtistGenres
    /\ pc \notin {"token", "search", "genres", "related", "done"}
         => relatedArtists = firstCall.relatedArtists
    /\ IsPrefix(offered, firstCall.offered)
    /\ pc \in {"score", "selLastFm", "selRelated", "selGenre", "selSeed",
               "selOther", "boost", "finish"}
         => offered = firstCall.offered

\* the call has ended: it is put on record and made again with
\* excludeUserTracks = false (lines 2185-2187: the arguments and fresh locals)
SecondCall ==
  /\ pc = "done"
  /\ ~firstCall.made
  /\ firstCall' = [made |-> TRUE, seedTrack |-> seedTrack,
                   seedArtistGenres |-> seedArtistGenres,
                   relatedArtists |-> relatedArtists, offered |-> offered,
                   tracks |-> tracks]
  /\ excludeUserTracks' = FALSE
  /\ authCode' = FALSE
  /\ pc' = "token"
  /\ accessToken' = "none"
  /\ seedSearch' = "pending"
  /\ seedTrack' = NoTrack
  /\ seedArtistGenres' = <<>>
  /\ relatedArtists' = <<>>
  /\ relIdx' = 1
  /\ searchIdx' = 0
  /\ lfmLeft' = 0
  /\ quota' = MaxTracks
  /\ candidateTracks' = <<>>
  /\ seenNormalizedNames' = {}
  /\ offered' = <<>>
  /\ excludeIds' = {}
  /\ libraryFailed' = FALSE
  /\ scoredTracks' = <<>>
  /\ finalTracks' = <<>>
  /\ artistCount' = NoArtistCount
  /\ sameArtistTotal' = 0
  /\ tracks' = <<>>
  /\ result' = "pending"
  /\ UNCHANGED <<tool, version, limit, trackQuery, userTop, userLiked, mood,
                 familiarity, names, seedHits, lfmMatch, settled, moodVars>>

\* one step of a call of findSimilarTracks (tools.ts); the second call is
\* given the answers the first was given; the seed search of both calls
\* resolves to track 1 when it has hits, the Last.fm entries of both calls
\* pass the low-score test of line 2636, and the top-tracks fetch of line
\* 2722 completes first
NextC ==
  \/ GetToken /\ SameResponses'
  \/ SearchSeed /\ SameResponses' /\ seedTrack' \in {NoTrack, TrackById(1)}
  \/ FetchArtistGenres /\ SameResponses'
  \/ FetchRelatedArtists /\ SameResponses'
  \/ GatherSeedArtist /\ SameResponses'
  \/ GatherRelatedArtist /\ SameResponses'
  \/ GatherGenreSearch /\ SameResponses'
  \/ FetchLastFm /\ SameResponses'
  \/ LastFmStep /\ SameResponses' /\ lfmMatch' >= LowMatch
  \/ FetchUserTracks /\ SameResponses'
       /\ (settled' = <<>> \/ settled'[1].fetch = "top")
  \/ ExcludeUserTracks /\ SameResponses'
  \/ ScoreTracks
  \/ SelectLastFm
  \/ SelectRelated
  \/ SelectGenre
  \/ SelectSeedArtist
  \/ SelectOther
  \/ FinalBoost
  \/ Finish
  \/ SecondCall

SpecC == InitC /\ [][NextC]_vars

(* ---------------------- the seed resolution on its own ---------------- *)
\* the hits a seed search may answer with: the original, and karaoke,
\* tribute, cover and instrumental versions marked in the track name or in
\* the artist name
SeedHitPool ==
  { Track(401, <<"a">>, <<"X">>),
    Track(402, <<"a", " ", "karaoke">>, <<"G1">>),
    Track(403, <<"a">>, <<"karaoke">>),
    Track(404, <<"a">>, <<"tribute">>),
    Track(405, <<"a", " ", "tribute">>, <<"G1">>),
    Track(406, <<"a">>, <<"cover">>),
    Track(407, <<"a", " ", "Cover">>, <<"G2">>),
    Track(408, <<"a", " ", "instrumental">>, <<"G2">>),
    Track(409, <<"a">>, <<"instrumental">>) }

\* the queries: plain, asking for a cover version, naming an artist
SeedQueries ==
  {PlainQuery, [artist |-> "", cover |-> TRUE], [artist |-> "x", cover |-> FALSE]}

\* the state of a call at line 2250 (part_001 line 2547), the seed search
\* answered with at least one hit
InitR ==
  /\ tool = "findSimilarTracks"
  /\ version \in Versions
  /\ pc = "resolve"
  /\ limit = 1
  /\ excludeUserTracks = FALSE
  /\ authCode = FALSE
  /\ trackQuery \in SeedQueries
  /\ userTop = {}
  /\ userLiked = {}
  /\ mood = ""
  /\ familiarity = "mixed"
  /\ seedHits \in DistinctSeqs(SeedHitPool, MaxHits) \ {<<>>}
  /\ names = NoNames
  /\ InitLocals

\* lines 2250-2299 (part_001 lines 2547-2603)
ResolveHits ==
  /\ pc = "resolve"
  /\ seedTrack' = ResolveSeed(seedHits, trackQuery)
  /\ seedSearch' = "hits"
  /\ pc' = "resolved"
  /\ UNCHANGED <<inputVars, moodVars, accessToken, seedArtistGenres,
                 relatedArtists, relIdx, searchIdx, lfmLeft, quota, gatherVars,
                 excludeIds, libraryFailed, selectVars, tracks, result>>

SpecR == InitR /\ [][ResolveHits]_vars

(* --------------- normalizeTrackNameForComparison on its own ------------ *)
\* the tokens the names are made of
NameTokens == {"a", "A", " ", "\n", "-", "(", ")", "Live", "feat"}

\* the names the function is given
Names == SeqsUpTo(NameTokens, MaxName)

\* the marker words the documentation lists, each as the tokens it is
\* written with
DocumentedMarkers ==
  { <<"feat">>, <<"ft.">>, <<"with">>, <<"remix">>, <<"live">>,
    <<"acoustic">>, <<"slowed">>, <<"sped", " ", "up">>, <<"instrumental">>,
    <<"reprise">>, <<"extended">>, <<"version">>, <<"reverb">> }

\* what follows the marker word in an annotation
AnnotationRests == {<<>>, <<" ", "b">>}

AnnotationForms == {"parenthesised", "dash"}

\* a title with no dash and no parenthesis
IsBare(name) == \A i \in 1..Len(name) : name[i] \notin {"-", "(", ")"}

\* "t (m ...)" and "t - m ..."
Annotated(t, form, m, rest) ==
  IF form = "parenthesised"
  THEN t \o <<" ", "(">> \o m \o rest \o <<")">>
  ELSE t \o <<" ", "-", " ">> \o m \o rest

InitN ==
  /\ tool = "findSimilarTracks"
  /\ version \in Versions
  /\ pc = "name"
  /\ limit = 1
  /\ excludeUserTracks = FALSE
  /\ authCode = FALSE
  /\ trackQuery = PlainQuery
  /\ userTop = {}
  /\ userLiked = {}
  /\ mood = ""
  /\ familiarity = "mixed"
  /\ seedHits = <<>>
  /\ \E n \in Names : names = [NoNames EXCEPT !.name = n]
  /\ InitLocals

\* key = normalizeTrackNameForComparison(name)
NormalizeName ==
  /\ pc = "name"
  /\ names' = [names EXCEPT !.key = normalizeTrackNameForComparison(names.name)]
  /\ pc' = "key"
  /\ UNCHANGED <<tool, version, limit, excludeUserTracks, authCode,
                 trackQuery, userTop, userLiked, mood, familiarity, firstCall,
                 seedHits, lfmMatch, settled, accessToken, seedSearch, seedTrack, seedArtistGenres,
                 relatedArtists, relIdx, searchIdx, lfmLeft, quota,
                 candidateTracks, seenNormalizedNames, offered, excludeIds,
                 libraryFailed, scoredTracks, finalTracks, artistCount,
                 sameArtistTotal, tracks, moodVars, result>>

\* rekey = normalizeTrackNameForComparison(key)
NormalizeKey ==
  /\ pc = "key"
  /\ names' = [names EXCEPT !.rekey = normalizeTrackNameForComparison(names.key)]
  /\ pc' = "rekey"
  /\ UNCHANGED <<tool, version, limit, excludeUserTracks, authCode,
                 trackQuery, userTop, userLiked, mood, familiarity, firstCall,
                 seedHits, lfmMatch, settled, accessToken, seedSearch, seedTrack, seedArtistGenres,
                 relatedArtists, relIdx, searchIdx, lfmLeft, quota,
                 candidateTracks, seenNormalizedNames, offered, excludeIds,
                 libraryFailed, scoredTracks, finalTracks, artistCount,
                 sameArtistTotal, tracks, moodVars, result>>

\* variantKey = normalizeTrackNameForComparison(variant), for an annotated
\* variant of a bare name
NormalizeVariant ==
  /\ pc = "key"
  /\ IsBare(names.name)
  /\ \E form \in AnnotationForms, m \in DocumentedMarkers,
        rest \in AnnotationRests :
       LET v == Annotated(names.name, form, m, rest)
       IN names' = [names EXCEPT
                      !.variant = v,
                      !.variantKey = normalizeTrackNameForComparison(v)]
  /\ pc' = "variantKey"
  /\ UNCHANGED <<tool, version, limit, excludeUserTracks, authCode,
                 trackQuery, userTop, userLiked, mood, familiarity, firstCall,
                 seedHits, lfmMatch, settled, accessToken, seedSearch, seedTrack, seedArtistGenres,
                 relatedArtists, relIdx, searchIdx, lfmLeft, quota,
                 candidateTracks, seenNormalizedNames, offered, excludeIds,
                 libraryFailed, scoredTracks, finalTracks, artistCount,
                 sameArtistTotal, tracks, moodVars, result>>

NextN ==
  \/ NormalizeName
  \/ NormalizeKey
  \/ NormalizeVariant

SpecN == InitN /\ [][NextN]_vars

(* ------------------------------ properties ----------------------------- *)
\* the normalized name key of a track
KeyOf(t) == normalizeTrackNameForComparison(t.name)

IdsOf(seq) == {seq[i].id : i \in 1..Len(seq)}

\* the tracks of a list of scored entries
TracksOfScored(scored) == [i \in 1..Len(scored) |-> scored[i].track]

\* how many tracks of seq have artist as their first-listed artist
CountPrimary(seq, artist) ==
  Cardinality({i \in 1..Len(seq) : ArtistKey(seq[i]) = artist})

DistinctKeys(seq) ==
  \A i, j \in 1..Len(seq) : i # j => KeyOf(seq[i]) # KeyOf(seq[j])

\* C1: in the selection no artist other than the seed artist is the
\* first-listed artist of more than one chosen track, at any point of the
\* selection and in the returned list.
C1_OneTrackPerOtherArtist ==
  \A a \in (ArtistNames \cup {""}) \ {seedArtist} :
    /\ CountPrimary(finalTracks, a) <= 1
    /\ CountPrimary(tracks, a) <= 1

\* the call returned fewer tracks than asked for, one of them by an artist
\* (not the seed artist) of whom another ranked track was left out
C1_Witness ==
  /\ pc = "done"
  /\ 0 < Len(tracks)
  /\ Len(tracks) < limit
  /\ \E i \in 1..Len(tracks), k \in 1..Len(scoredTracks) :
       /\ ArtistKey(tracks[i]) # seedArtist
       /\ ArtistKey(scoredTracks[k].track) = ArtistKey(tracks[i])
       /\ scoredTracks[k].track.id \notin IdsOf(tracks)

\* C2: in the selection at most 2 chosen tracks have the seed artist as
\* their first-listed artist, at any point of the selection and in the
\* returned list.
C2_AtMostTwoSeedArtist ==
  /\ CountPrimary(finalTracks, seedArtist) <= 2
  /\ CountPrimary(tracks, seedArtist) <= 2

\* the call returned fewer tracks than asked for, two of them by the seed
\* artist, and left out a third ranked track by the seed artist
C2_Witness ==
  /\ pc = "done"
  /\ Len(tracks) < limit
  /\ CountPrimary(tracks, seedArtist) = 2
  /\ \E k \in 1..Len(scoredTracks) :
       /\ ArtistKey(scoredTracks[k].track) = seedArtist
       /\ scoredTracks[k].track.id \notin IdsOf(tracks)

\* the tracks of a history that are the first of their key, variants of the
\* seed left out
FirstOfKey(history) ==
  LET keep(i) == /\ KeyOf(history[i]) # seedNormalizedName
                 /\ \A j \in 1..(i - 1) : KeyOf(history[j]) # KeyOf(history[i])
      f[i \in 0..Len(history)] ==
        IF i = 0 THEN <<>>
        ELSE IF keep(i) THEN Append(f[i - 1], history[i]) ELSE f[i - 1]
  IN f[Len(history)]

\* C3: no two candidates, scored tracks, chosen tracks or returned tracks
\* of findSimilarTracks share a normalized name key, and the candidates are
\* exactly the tracks that were the first of their key among those the
\* sources put before the duplicate test, in source order (seed-artist top
\* tracks, related-artist tracks, genre-search hits, Last.fm results).
C3_FirstOfKeyKept ==
  tool = "findSimilarTracks" =>
    /\ DistinctKeys(candidateTracks)
    /\ DistinctKeys(TracksOfScored(scoredTracks))
    /\ DistinctKeys(finalTracks)
    /\ DistinctKeys(tracks)
    /\ version = "tools.ts" => candidateTracks = FirstOfKey(offered)

\* two tracks of one key came from different sources, the call returned
\* tracks, and the candidate of that key is the one of the earlier source
C3_Witness ==
  /\ pc = "done"
  /\ Len(tracks) > 0
  /\ \E i, j \in 1..Len(offered) :
       /\ i < j
       /\ KeyOf(offered[i]) = KeyOf(offered[j])
       /\ offered[i].id # offered[j].id
       /\ offered[i].source # offered[j].source
       /\ offered[i] \in Range(candidateTracks)

\* C4: a track whose id is in excludeIds is never in the scored list of
\* findSimilarTracks, nor among the chosen or the returned tracks.
C4_ExcludedNeverScored ==
  tool = "findSimilarTracks" =>
    /\ IdsOf(TracksOfScored(scoredTracks)) \cap excludeIds = {}
    /\ IdsOf(finalTracks) \cap excludeIds = {}
    /\ IdsOf(tracks) \cap excludeIds = {}

\* a candidate is in the exclusion set, and the call returned other tracks
C4_Witness ==
  /\ tool = "findSimilarTracks"
  /\ pc = "done"
  /\ Len(tracks) > 0
  /\ IdsOf(candidateTracks) \cap excludeIds # {}

\* C5: neither the resolved seed track nor a track with the seed's
\* normalized name key is among the chosen or the returned tracks of
\* findSimilarTracks.
C5_SeedNeverReturned ==
  tool = "findSimilarTracks" =>
    \A t \in Range(finalTracks) \cup Range(tracks) :
      /\ t.id # seedTrack.id
      /\ KeyOf(t) # seedNormalizedName

\* a source offered a variant of the seed under another id, and the call
\* returned tracks
C5_Witness ==
  /\ pc = "done"
  /\ Len(tracks) > 0
  /\ \E j \in 1..Len(offered) :
       /\ offered[j].id # seedTrack.id
       /\ KeyOf(offered[j]) = seedNormalizedName

\* C6: when findSimilarTracks ran with excludeUserTracks, got a user
\* access token and no library fetch failed, no returned track is one of
\* the user's top or liked tracks.
C6_LibraryTracksExcluded ==
  (/\ tool = "findSimilarTracks"
   /\ pc = "done"
   /\ excludeUserTracks
   /\ accessToken = "user"
   /\ ~libraryFailed)
    => IdsOf(tracks) \cap (userTop \cup userLiked) = {}

\* C7: in scenario A the returned list has at most 2 tracks whose
\* first-listed artist is the seed artist X, and tracks by at least 5
\* distinct other artists.
C7_ScenarioA ==
  pc = "done" =>
    /\ CountPrimary(tracks, seedArtist) <= 2
    /\ Cardinality({ArtistKey(tracks[i]) : i \in 1..Len(tracks)}
                     \ {seedArtist}) >= 5

\* scenario A has run: 15 ranked Last.fm tracks by the seed artist, 5 ranked
\* tracks of other artists, limit 10, and a list was returned
C7_Witness ==
  /\ pc = "done"
  /\ limit = 10
  /\ result = "Tracks Similar to"
  /\ Cardinality({k \in 1..Len(lastFmTracks) :
                    ArtistKey(lastFmTracks[k].track) = seedArtist}) = 15
  /\ Cardinality({k \in 1..Len(scoredTracks) :
                    ArtistKey(scoredTracks[k].track) # seedArtist}) = 5

\* the artists other than the seed artist that are first-listed on a ranked
\* track
OtherPrimaryArtists ==
  {ArtistKey(scoredTracks[k].track) : k \in 1..Len(scoredTracks)} \ {seedArtist}

\* C8: the selection never returns more than limit tracks, and returns
\* exactly limit tracks whenever the ranked list holds at least limit
\* tracks whose first-listed artists are pairwise distinct and differ from
\* the seed artist.
C8_ExactlyLimit ==
  pc = "done" =>
    /\ Len(tracks) <= limit
    /\ Cardinality(OtherPrimaryArtists) >= limit => Len(tracks) = limit

\* the texts the two tools return
ResultTexts ==
  {CatchAll, MoodCatchAll,
   "Failed to get access token for track search.",
   "Failed to find the seed track.", "No track found matching",
   "No similar tracks found on Last.fm", "No similar tracks found",
   "Tracks Similar to", "Failed to get user profile.",
   "Failed to create playlist.", "Playlist created but failed to add tracks.",
   "Playlist Created"}

\* C9: no call of findSimilarTracks or generatePlaylistByMood lets an
\* exception out: whatever the external calls answer, a call that has
\* ended has returned one of its texts, and a call that has not ended has
\* not thrown either.
C9_AlwaysReturnsText ==
  /\ result # "EXCEPTION"
  /\ pc = "done" => result \in ResultTexts
  /\ pc # "done" => result = "pending"

\* each tool can end in its catch clause after an external call threw late
\* in the call; here the playlist was being written when it happened
C9_Witness ==
  /\ tool = "generatePlaylistByMood"
  /\ pc = "done"
  /\ result = MoodCatchAll
  /\ Len(playlistCalls) = 2

\* C10: when the seed search of findSimilarTracks succeeds with zero hits,
\* the call ends there and returns the "No track found matching" text.
C10_NoTrackFound ==
  (tool = "findSimilarTracks" /\ seedSearch = "empty") =>
    /\ pc = "done"
    /\ result = "No track found matching"
    /\ tracks = <<>>

\* the seed search answered with zero hits and the call has ended
C10_Witness ==
  /\ tool = "findSimilarTracks"
  /\ seedSearch = "empty"
  /\ pc = "done"

\* C11: a failed external call of a candidate source does not end
\* findSimilarTracks with an error result.  In tools.ts every external call
\* made after the seed has been resolved belongs to a candidate source (or is
\* the library fetch, which has a catch of its own), so a call that resolved
\* its seed ends with the recommendations or with the text for an empty list,
\* never with the text of the catch clause.
C11_SourceFailureTolerated ==
  (/\ tool = "findSimilarTracks"
   /\ version = "tools.ts"
   /\ seedSearch = "hits"
   /\ pc = "done")
    => result \in {"Tracks Similar to", "No similar tracks found"}

\* C12 (scenario C): a call of findSimilarTracks with excludeUserTracks = true
\* for a user with an empty library, and a call with excludeUserTracks = false
\* that is given the same answers by the catalog and by Last.fm, return the
\* same tracks in the same order.
C12_SameTracksWithEmptyLibrary ==
  (/\ firstCall.made
   /\ pc = "done"
   /\ seedTrack = firstCall.seedTrack
   /\ seedArtistGenres = firstCall.seedArtistGenres
   /\ relatedArtists = firstCall.relatedArtists
   /\ offered = firstCall.offered)
    => tracks = firstCall.tracks

\* both calls have ended on the same answers, the first with a user token
\* and a library fetch that found nothing, and tracks were returned
C12_Witness ==
  /\ firstCall.made
  /\ pc = "done"
  /\ ~excludeUserTracks
  /\ accessToken = "client"
  /\ seedTrack = firstCall.seedTrack
  /\ seedArtistGenres = firstCall.seedArtistGenres
  /\ relatedArtists = firstCall.relatedArtists
  /\ offered = firstCall.offered
  /\ Len(firstCall.tracks) = MaxLimit
  /\ Len(tracks) = MaxLimit

\* C13 (scenario D): when generatePlaylistByMood runs with familiarity "new",
\* the profile and the playlist-create call have succeeded (the call stands
\* before step 6) and no track was gathered, the call issues no add-tracks
\* call and returns the "Playlist Created" text, which reports
\* trackUris.length = 0 tracks added.
C13_EmptyPlaylistCreated ==
  [][(/\ tool = "generatePlaylistByMood"
      /\ familiarity = "new"
      /\ pc = "add"
      /\ Len(trackUris) = 0)
       => /\ playlistCalls = <<"create">>
          /\ playlistCalls' = playlistCalls
          /\ pc' = "done"
          /\ result' = "Playlist Created"
          /\ Len(trackUris') = 0]_vars

\* a call in "new" mode that gathered nothing has created its playlist and
\* returned the success text
C13_Witness ==
  /\ tool = "generatePlaylistByMood"
  /\ familiarity = "new"
  /\ pc = "done"
  /\ result = "Playlist Created"
  /\ trackUris = <<>>
  /\ playlistCalls = <<"create">>

\* C14: with familiarity "familiar" every track generatePlaylistByMood puts
\* on its URI list is one of the user's top or liked tracks.
C14_FamiliarOnlyOwnTracks ==
  (tool = "generatePlaylistByMood" /\ familiarity = "familiar")
    => Range(trackUris) \subseteq (userTop \cup userLiked)

\* C15: with familiarity "new" no track among the top tracks or the liked
\* tracks that generatePlaylistByMood fetched is ever on its URI list.
C15_NewExcludesLibrary ==
  (tool = "generatePlaylistByMood" /\ familiarity = "new")
    => Range(trackUris) \cap (Range(topTracks) \cup Range(likedTracks)) = {}

\* a call in "new" mode fetched a library that is not empty, gathered tracks
\* from the searches and wrote them to the playlist
C15_Witness ==
  /\ tool = "generatePlaylistByMood"
  /\ familiarity = "new"
  /\ pc = "done"
  /\ result = "Playlist Created"
  /\ Len(topTracks) > 0
  /\ Len(likedTracks) > 0
  /\ excludeIds = Range(topTracks) \cup Range(likedTracks)
  /\ Len(trackUris) > 0
  /\ playlistCalls = <<"create", "add">>


\* C16: normalizeTrackNameForComparison is idempotent: normalizing the key of
\* a title again returns the key unchanged
C16_Idempotent ==
  pc = "rekey" => names.rekey = names.key

\* C17: an annotated variant of a bare title, "t (m ...)" or "t - m ..." with
\* m a documented marker word, normalizes to the same key as the title
C17_VariantSameKey ==
  pc = "variantKey" => names.variantKey = names.key


\* the provenance of a scored candidate, for candidates of one provenance
\* only: by the seed artist, by a related artist, from the genre search by
\* an unrelated artist, from Last.fm by an unrelated artist
IsSeedArtistOnly(e) ==
  e.isSameArtist /\ ~e.isRelatedArtist /\ e.track.source # "lastfm"

IsRelatedOnly(e) ==
  e.isRelatedArtist /\ ~e.isSameArtist /\ e.track.source # "lastfm"

IsGenreOnly(e) ==
  e.track.source = "genre_search" /\ ~e.isSameArtist /\ ~e.isRelatedArtist

IsCrowdOnly(e) ==
  e.track.source = "lastfm" /\ ~e.isSameArtist /\ ~e.isRelatedArtist

\* otherwise alike: the same mood words shared with the seed
Alike(e, f) ==
  CandidateMetadata(e.track) \cap seedMetadata
    = CandidateMetadata(f.track) \cap seedMetadata

ScoredEntries == {scoredTracks[i] : i \in 1..Len(scoredTracks)}

\* C18 as stated: in the ranked list a seed-artist candidate never scores
\* higher than an otherwise alike genre-search candidate by an unrelated
\* artist
C18_SeedArtistNotAboveGenre ==
  \A e, f \in ScoredEntries :
    (IsSeedArtistOnly(e) /\ IsGenreOnly(f) /\ Alike(e, f))
      => e.score <= f.score

\* C18 as amended: among otherwise alike candidates of the ranked list the
\* score is strictly ordered crowd-similarity > related-artist > same-artist
\* > genre-search by an unrelated artist
C18_ProvenanceOrder ==
  \A e, f \in ScoredEntries :
    Alike(e, f) =>
      /\ (IsCrowdOnly(e) /\ IsRelatedOnly(f)) => e.score > f.score
      /\ (IsRelatedOnly(e) /\ IsSeedArtistOnly(f)) => e.score > f.score
      /\ (IsSeedArtistOnly(e) /\ IsGenreOnly(f)) => e.score > f.score

C18_Witness ==
  /\ pc = "selLastFm"
  /\ \E f, g, h \in ScoredEntries :
       /\ IsRelatedOnly(f) /\ IsSeedArtistOnly(g) /\ IsGenreOnly(h)
       /\ Alike(f, g) /\ Alike(g, h)
       /\ f.score = 11 /\ g.score = 9 /\ h.score = 3


\* the position of a track in the ranked list (0 if it is not in it)
RankOf(id) ==
  IF \E k \in 1..Len(scoredTracks) : scoredTracks[k].track.id = id
  THEN CHOOSE k \in 1..Len(scoredTracks) :
         /\ scoredTracks[k].track.id = id
         /\ \A j \in 1..(k - 1) : scoredTracks[j].track.id # id
  ELSE 0

\* the tracks of a list are tracks of the ranked list, in ranked order
IsRanked(list) ==
  /\ \A i \in 1..Len(list) : RankOf(list[i].id) > 0
  /\ \A i, j \in 1..Len(list) :
       i < j => RankOf(list[i].id) < RankOf(list[j].id)

\* C19 as stated: the final output is an ordered subsequence of the ranked
\* list: of two output tracks the earlier one is also earlier in the ranked
\* list
C19_OrderedSubsequence ==
  (tool = "findSimilarTracks" /\ version = "tools.ts" /\ pc = "done"
     /\ result = "Tracks Similar to")
    => IsRanked(tracks)

\* C19 as amended: each of the five selection stages appends to the output
\* tracks of the ranked list in ranked order, and the final output is the
\* first limit tracks so chosen, each a track of the ranked list and in the
\* output once
C19_StagewiseRanked ==
  [][/\ pc \in {"selLastFm", "selRelated", "selGenre", "selSeed", "selOther"}
          => /\ IsPrefix(finalTracks, finalTracks')
             /\ IsRanked(SubSeq(finalTracks', Len(finalTracks) + 1,
                                Len(finalTracks')))
     /\ pc = "finish"
          => /\ IsPrefix(tracks', finalTracks)
             /\ \A i \in 1..Len(tracks') : RankOf(tracks'[i].id) > 0
             /\ \A i, j \in 1..Len(tracks') :
                  i # j => tracks'[i].id # tracks'[j].id]_vars

C19_Witness ==
  /\ pc = "done"
  /\ result = "Tracks Similar to"
  /\ Len(tracks) >= 3
  /\ ~IsRanked(tracks)
  /\ \E i \in 1..Len(tracks) : SourceOf(tracks[i].id) = "genre_search"
  /\ \E i \in 1..Len(tracks) : ArtistKey(tracks[i]) = seedArtist


\* the tracks of a list whose primary artist is not the seed artist
NonSeedCount(list) ==
  Cardinality({i \in 1..Len(list) : ArtistKey(list[i]) # seedArtist})

\* C20: a track whose primary artist is the seed artist is pushed onto the
\* output only by the seed-artist stage, and only when at least
\* floor(0.6 * limit) tracks of the earlier stages (none by the seed artist)
\* are already in the output
C20_SeedArtistGated ==
  [][(tool = "findSimilarTracks" /\ version = "tools.ts")
       => /\ IsPrefix(finalTracks, finalTracks')
          /\ \A i \in (Len(finalTracks) + 1)..Len(finalTracks') :
               ArtistKey(finalTracks'[i]) = seedArtist
                 => /\ pc = "selSeed"
                    /\ NonSeedCount(finalTracks) >= (6 * limit) \div 10
                    /\ NonSeedCount(finalTracks) = Len(finalTracks)]_vars

C20_Witness ==
  /\ pc = "done"
  /\ limit = 5
  /\ Len(tracks) = 5
  /\ \A i \in 1..3 : ArtistKey(tracks[i]) # seedArtist
  /\ \A i \in 4..5 : ArtistKey(tracks[i]) = seedArtist
  /\ sameArtistTotal = 2


\* C21: at most maxSameArtistTracks (2) tracks of the final output of
\* findSimilarTracks credit the seed artist in any artist position
C21_AtMostTwoCreditSeedArtist ==
  (tool = "findSimilarTracks" /\ version = "tools.ts" /\ pc = "done")
    => Cardinality({i \in 1..Len(tracks) : Credits(tracks[i], seedArtist)})
         <= 2


\* a step of a Last.fm loop whose entry became a candidate or an output
\* track
LfmEntryKept ==
  /\ lfmMatch' # NoMatch
  /\ candidateTracks' # candidateTracks \/ finalTracks' # finalTracks

\* C22 as stated: no Last.fm result whose match is below 0.1 becomes a
\* candidate or an output track, whatever the number of candidates gathered
C22_LowMatchNeverKept ==
  [][LfmEntryKept => lfmMatch' >= 10]_vars

\* C22 as amended: in part_001 no Last.fm result whose match is below 0.1 is
\* kept; in tools.ts a result is kept unless its match is below 0.15 and
\* more than 20 candidates are already gathered
C22_LowMatchKeptWhenFew ==
  [][LfmEntryKept =>
       IF version = "part_001" THEN lfmMatch' >= 10
       ELSE lfmMatch' >= 15 \/ Len(candidateTracks) <= 20]_vars

C22_Witness ==
  /\ version = "tools.ts"
  /\ lfmMatch = 5
  /\ Len(candidateTracks) = 21
  /\ quota < MaxTracks
  /\ offered = <<>>


\* a hit with none of the words karaoke, instrumental, cover, tribute in its
\* track name or in its artist name
IsOriginal(t) ==
  \A w \in {"karaoke", "instrumental", "cover", "tribute"} :
    /\ ~NameIncludes(t.name, w)
    /\ \A i \in 1..Len(t.artists) : LowerArtist(t.artists[i]) # w

\* C23: without an artist in the query, the chosen seed is the first hit
\* with none of the four words in its track name or artist name when the
\* query does not ask for a cover version and such a hit exists, else the
\* first hit
C23_FirstOriginalHit ==
  (pc = "resolved" /\ trackQuery.artist = "")
    => seedTrack =
         (IF ~trackQuery.cover /\ \E i \in 1..Len(seedHits) : IsOriginal(seedHits[i])
          THEN seedHits[CHOOSE i \in 1..Len(seedHits) :
                          /\ IsOriginal(seedHits[i])
                          /\ \A k \in 1..(i - 1) : ~IsOriginal(seedHits[k])]
          ELSE seedHits[1])


\* C24: in generatePlaylistByMood the create call is issued at most once,
\* with a token and after the profile and the gathering (every search
\* query answered); the add call is issued only after the create call
\* returned success (the call still pending at the add step) and only with
\* a URI list that is not empty
C24_PlaylistCallsLast ==
  [][(tool = "generatePlaylistByMood" /\ playlistCalls' # playlistCalls)
       => \/ /\ playlistCalls = <<>>
             /\ playlistCalls' = <<"create">>
             /\ pc = "create"
             /\ accessToken # "none"
             /\ version = "tools.ts" => searchIdx = Len(SearchQueries)
          \/ /\ playlistCalls = <<"create">>
             /\ playlistCalls' = <<"create", "add">>
             /\ pc = "add"
             /\ result = "pending"
             /\ Len(trackUris) > 0]_vars

C24_Witness ==
  /\ tool = "generatePlaylistByMood"
  /\ familiarity = "mixed"
  /\ pc = "done"
  /\ playlistCalls = <<"create", "add">>
  /\ searchIdx = Len(SearchQueries)
  /\ Len(trackUris) > 0
  /\ result \in {"Playlist Created", "Playlist created but failed to add tracks."}


(* ---------------- C25: a run whose calls all succeed ---------------- *)
\* C25: a call of generatePlaylistByMood whose external calls all succeeded
\* (identity, top tracks, liked tracks, searches, playlist create, add
\* tracks) ends, in every familiarity mode, with exactly one playlist created
\* and the success text returned.
C25_AllCallsSucceedCreates ==
  (tool = "generatePlaylistByMood" /\ pc = "done" /\ ~callFailed)
    => /\ result = "Playlist Created"
       /\ Len(playlistCalls) >= 1
       /\ Cardinality({i \in 1..Len(playlistCalls) :
                          playlistCalls[i] = "create"}) = 1


(* ------------- C26: the library fetches of the 'new' mode ------------- *)
\* a fetch that answered with a non-success status or threw
FetchFailed(answer) == answer \in {"notok", "throw"}

\* C26: in 'new' mode, when the fetch of the top tracks or of the liked
\* tracks failed (non-success answer or thrown error) and no other answer of
\* the library step stood in the way, the call does not end before the
\* playlist-create call is issued.
C26_NewModeFailsOpen ==
  (/\ tool = "generatePlaylistByMood"
   /\ familiarity = "new"
   /\ FetchFailed(libraryAnswers.top) \/ FetchFailed(libraryAnswers.liked)
   /\ libraryAnswers.artists \in {"none", "ok", "notok"}
   /\ "badjson" \notin {libraryAnswers.top, libraryAnswers.liked})
    => ~(pc = "done" /\ playlistCalls = <<>>)


(* ------------- C27: the text returned after a created playlist ------------- *)
\* C27: once the playlist-create call has succeeded (execute() is at the add
\* step), the text the call returns reports the playlist as created: the
\* success text or 'Playlist created but failed to add tracks', whatever the
\* add-tracks call answers.
C27_CreatedIsReported ==
  [][(tool = "generatePlaylistByMood" /\ pc = "add" /\ pc' = "done")
       => result' \in {"Playlist Created",
                       "Playlist created but failed to add tracks."}]_vars


(* ------------------ C28, C29: the size of the URI list ------------------ *)
\* C28: the list of track URIs that generatePlaylistByMood gathers and hands
\* to the add-tracks call never holds more than 20 entries and never holds the
\* same track twice, in every familiarity mode and whatever the searches
\* answer.
C28_AtMostTwentyDistinct ==
  tool = "generatePlaylistByMood"
    => /\ Len(trackUris) <= 20
       /\ \A i, j \in 1..Len(trackUris) : i # j => trackUris[i] # trackUris[j]

\* the add-tracks call was issued with a list longer than one page, gathered
\* from searches and, in familiar mode, from top tracks the searches had
\* listed too
C28_Witness ==
  /\ tool = "generatePlaylistByMood"
  /\ familiarity = "familiar"
  /\ topTracks # <<>>
  /\ pc = "done"
  /\ playlistCalls = <<"create", "add">>
  /\ Len(trackUris) > PageSize
  /\ \E i \in 1..Len(trackUris) : trackUris[i] \notin Range(topTracks)
  /\ \E i \in 1..Len(trackUris) : trackUris[i] \in Range(topTracks)

\* C29: in generatePlaylistByMood of tools.ts the list of track URIs never
\* holds more than 15 entries, whatever the number of search queries and
\* whatever they answer.
C29_AtMostFifteen ==
  (tool = "generatePlaylistByMood" /\ version = "tools.ts")
    => Len(trackUris) <= MoodCap


(* ------------- C30: the merge and the order of completion ------------- *)
\* the answer that the fetch named fetch received, whenever it arrived
AnswerOf(fetch) == (CHOOSE e \in Range(settled) : e.fetch = fetch).outcome

\* candidates of an earlier source stand before those of a later one
InSourceOrder(candidates) ==
  \A i, j \in 1..Len(candidates) :
    i < j => SourceRank(candidates[i].source) <= SourceRank(candidates[j].source)

\* C30: what findSimilarTracks merges depends on the answers of its calls
\* and not on the order in which they complete: the candidate list is in the
\* order of the sources, and the exclusion set built from the two fetches
\* that are in flight together is fixed by what each fetch answered, whichever
\* arrived first.
C30_MergedBySourceOrder ==
  [][tool = "findSimilarTracks"
       => /\ InSourceOrder(candidateTracks')
          /\ (pc = "excludeIds" /\ settled # <<>>)
               => excludeIds' =
                    IF AnswerOf("top") = "badjson" THEN {}
                    ELSE (IF AnswerOf("top") = "ok" THEN userTop ELSE {})
                         \cup (IF AnswerOf("liked") = "ok" THEN userLiked
                               ELSE {})]_vars

\* the liked-tracks fetch arrived first and the two answers differ, for a
\* user with top and liked tracks and candidates of two sources
C30_Witness ==
  /\ tool = "findSimilarTracks"
  /\ pc = "excludeIds"
  /\ settled # <<>>
  /\ settled[1].fetch = "liked"
  /\ settled[1].outcome = "ok"
  /\ settled[2].outcome = "notok"
  /\ userTop # {}
  /\ userLiked # {}
  /\ \E i, j \in 1..Len(candidateTracks) :
       candidateTracks[i].source # candidateTracks[j].source

====
